---- MODULE Spec2Model ----
(***************************************************************************)
(* A model of the desksense capture / deduplication / insight pipeline     *)
(* (src/src/lib/screenpipe.ts and the route handlers that call it).        *)
(*                                                                         *)
(* Strings are modelled as sequences of one-character strings so that      *)
(* toLowerCase, trim, split and includes are computed character by         *)
(* character, as the JavaScript built-ins compute them.                    *)
(*                                                                         *)
(* Several specifications share the module:                                *)
(*   SpecDedup    deduplicateScreenData, one loop iteration per step       *)
(*   SpecCapture  queryRecentActivity: the query/timer race and fallbacks  *)
(*   SpecInsight  generateInsightsFromActivity / sendToNebiusAI /          *)
(*                saveInsight                                              *)
(*   SpecDb       dbConnect (db.ts) called by concurrent handlers          *)
(*   SpecStore    saveInsight, getInsights, updateInsightStatus and the    *)
(*                PATCH handler over the AIInsight collection              *)
(*   SpecActivity the /activity route: rate limiter, GET and POST          *)
(*   SpecAuth     POST /activity: the authorization check                  *)
(*   SpecOutage   GET /activity, POST /insights and POST /notification,     *)
(*                upstream up or down                                      *)
(*   SpecNotify   POST /notification and sendNotification                  *)
(*   SpecDbRetry  the retrying revision of dbConnect (screenpipe.ts        *)
(*                1207-1276) called by concurrent handlers                 *)
(***************************************************************************)
EXTENDS Integers, Sequences, FiniteSets, TLC

VARIABLES
  \* ---- deduplicateScreenData (screenpipe.ts 137-180)
  dpc,          \* "idle" | "loop" | "done"
  screenData,   \* the argument
  dIdx,         \* index of the next item the for-of loop visits
  uniqueData,   \* accepted items, in push order
  seenContent   \* the Set of accepted simplified strings

dedupVars == <<dpc, screenData, dIdx, uniqueData, seenContent>>

VARIABLES
  \* ---- queryRecentActivity (screenpipe.ts 50-131)
  qpc,          \* "idle" | "racing" (awaiting Promise.race, line 86) | "done"
  now,          \* the clock, in seconds
  startedAt,    \* the time of the call, when setTimeout was armed (line 59)
  timerFired,   \* the setTimeout callback of lines 59-62 has run
  querySettled, \* the promise of pipe.queryScreenpipe has settled
  qOutcome,     \* how it settled
  winner,       \* "none" | "query" | "timer": which promise settled the race
  qReturn,      \* the value queryRecentActivity returned
  qThrew        \* queryRecentActivity rejected

captureVars ==
  <<qpc, now, startedAt, timerFired, querySettled, qOutcome, winner, qReturn, qThrew>>

VARIABLES
  \* ---- generateInsightsFromActivity / sendToNebiusAI / saveInsight (screenpipe.ts 620-850)
  gpc,          \* "idle" | "attempt" (attemptRequest about to run) | "backoff" (line 716)
                \* | "respond" (sendToNebiusAI returned, line 782) | "done"
  insightType,  \* the insightType argument
  apiConfigured,\* NEBIUS_API_KEY and NEBIUS_API_ENDPOINT are both set (line 626)
  retryCount,   \* sendToNebiusAI.retryCount (line 622)
  requests,     \* number of axios.post calls made by this sendToNebiusAI call
  delays,       \* the setTimeout delays of line 716 waited so far, in ms, in order
  attempts,     \* the outcome of each axios.post call, in order
  lastStatus,   \* the status of the last response that carried one
  lastBodyNull, \* that response's data was null
  aiResponse,   \* what sendToNebiusAI resolved with
  saveOutcome,  \* "none" | "saved" | "connectFailed" | "invalid" | "writeFailed"
  returned,     \* what generateInsightsFromActivity resolved with
  genThrew,     \* generateInsightsFromActivity rejected
  calls,        \* number of generateInsightsFromActivity calls so far
  isConnected,  \* db.ts line 10
  insights      \* the AIInsight collection

insightVars ==
  <<gpc, insightType, apiConfigured, retryCount, requests, delays, attempts, lastStatus,
    lastBodyNull, aiResponse, saveOutcome, returned, genThrew, calls, isConnected, insights>>

\* the variables of insightVars that only generateInsightsFromActivity reads or writes
genVars ==
  <<gpc, insightType, apiConfigured, retryCount, requests, delays, attempts, lastStatus,
    lastBodyNull, aiResponse, saveOutcome, returned, genThrew, calls>>

VARIABLES
  \* ---- dbConnect called by handlers that run concurrently (db.ts 10-30)
  hpc,          \* per handler: "idle" | "connecting" (awaiting mongoose.connect, line 19)
  connectCalls, \* number of mongoose.connect calls made so far
  rejects,      \* how many of them rejected
  dbCalls,      \* number of dbConnect calls started so far
  dbOutcome,    \* per handler, how its last finished dbConnect call ended:
                \* "none" | "cached" | "connected" | "threw" | "swallowed"
  dbAttempts,   \* per handler, the mongoose.connect calls its last dbConnect call made
  linkUp        \* the connection a connect established is still open

dbVars == <<hpc, connectCalls, rejects, dbCalls, dbOutcome, dbAttempts, linkUp>>

VARIABLES
  \* ---- the retrying revision of dbConnect (screenpipe.ts 1207-1276)
  dbRetryCount, \* the module-level retryCount (line 1219)
  dbWaits,      \* per handler, the delays its current or last dbConnect call waited, in ms
  storeUp       \* the store accepts connections

retryVars == <<dbRetryCount, dbWaits, storeUp>>

VARIABLES
  \* ---- POST /notification (api/notification/route.ts) and sendNotification
  notification  \* the last request to POST /notification: its body, what
                \* sendNotification did and returned, and the answer

notifyVars == <<notification>>

VARIABLES
  \* ---- getInsights / updateInsightStatus and the /insights GET and PATCH handlers
  listOptions,  \* the options of the last getInsights call
  listPath,     \* "none" | "store" | "empty" | "failed": the branch that produced its result
  listResult,   \* the records it returned
  patchBody,    \* the body of the last PATCH request
  patchStatus   \* the HTTP status of the answer to it, 0 before any

storeVars == <<listOptions, listPath, listResult, patchBody, patchStatus>>

VARIABLES
  \* ---- the /activity route (part_004) and POST /insights (insights/page.tsx 301-344)
  nowMs,        \* Date.now()
  ipRequests,   \* the rate limiter's Map: client address -> entry (part_004 line 10)
  accepted,     \* per client address, the requests checkRateLimit let through in the
                \* address's current window
  clients,      \* the client addresses that send requests to /activity
  apiSecretKey, \* process.env.API_SECRET_KEY, <<>> when unset
  run           \* what the last handler run received, did and answered

activityVars == <<nowMs, ipRequests, accepted, clients, apiSecretKey, run>>

vars ==
  <<dedupVars, captureVars, insightVars, dbVars, storeVars, activityVars, retryVars,
    notifyVars>>

\* what the actions of one specification leave alone
notDedupVars ==
  <<captureVars, insightVars, dbVars, storeVars, activityVars, retryVars, notifyVars>>

notCaptureVars ==
  <<dedupVars, insightVars, dbVars, storeVars, activityVars, retryVars, notifyVars>>

notInsightVars ==
  <<dedupVars, captureVars, dbVars, storeVars, activityVars, retryVars, notifyVars>>

notDbVars ==
  <<dedupVars, captureVars, genVars, insights, storeVars, activityVars, retryVars, notifyVars>>

notStoreVars ==
  <<dedupVars, captureVars, genVars, dbVars, activityVars, retryVars, notifyVars>>

notActivityVars ==
  <<dedupVars, captureVars, genVars, dbVars, storeVars, retryVars, notifyVars>>

notRetryVars == <<dedupVars, captureVars, genVars, insights, storeVars, activityVars, notifyVars>>

notNotifyVars ==
  <<dedupVars, captureVars, insightVars, dbVars, storeVars, activityVars, retryVars>>

(***************************************************************************)
(* Bounds of the model.                                                    *)
(***************************************************************************)
\* longest input sequence handed to deduplicateScreenData in SpecDedup
MaxItems == 3

\* longest page the capture service returns in SpecCapture
MaxPage == 3

\* last clock value of SpecCapture, in seconds
MaxClock == 17

\* number of generateInsightsFromActivity calls in one behaviour of SpecInsight
MaxCalls == 2

\* number of request handlers that call dbConnect concurrently in SpecDb
NumHandlers == 2

\* number of dbConnect calls in one behaviour of SpecDb
MaxDbCalls == 5

\* number of dbConnect calls in one behaviour of SpecDbRetry
MaxRetryCalls == 3

\* number of documents the AIInsight collection holds at most in SpecStore
MaxDocs == 2

\* number of documents POST /insights adds at most in SpecOutage
MaxGenerated == 1

\* the step of the clock in SpecActivity, in ms
TickMs == 40000

\* the clock of SpecActivity stops at MaxTicks * TickMs
MaxTicks == 2

\* requests of one client address counted in one window of the rate limiter
MaxCount == 12

(***************************************************************************)
(* Characters and the string built-ins used by the source.                 *)
(***************************************************************************)
UpperCase ==
  <<"A","B","C","D","E","F","G","H","I","J","K","L","M",
    "N","O","P","Q","R","S","T","U","V","W","X","Y","Z">>

LowerCase ==
  <<"a","b","c","d","e","f","g","h","i","j","k","l","m",
    "n","o","p","q","r","s","t","u","v","w","x","y","z">>

\* the white space String.prototype.trim strips (the part that can occur here)
WhiteSpace == {" ", "\t", "\n"}

ToLowerChar(c) ==
  IF \E i \in 1..Len(UpperCase) : UpperCase[i] = c
    THEN LowerCase[CHOOSE i \in 1..Len(UpperCase) : UpperCase[i] = c]
    ELSE c

\* String.prototype.toLowerCase
ToLowerCase(s) == [i \in 1..Len(s) |-> ToLowerChar(s[i])]

\* String.prototype.trim
Trim(s) ==
  LET keep == {i \in 1..Len(s) : s[i] \notin WhiteSpace}
  IN  IF keep = {} THEN <<>>
      ELSE SubSeq(s, CHOOSE i \in keep : \A j \in keep : i <= j,
                     CHOOSE i \in keep : \A j \in keep : i >= j)

\* String.prototype.includes
Includes(hay, needle) ==
  \E i \in 0..(Len(hay) - Len(needle)) : SubSeq(hay, i + 1, i + Len(needle)) = needle

\* String.prototype.split(' '): the pieces between single spaces, empty pieces kept
RECURSIVE SplitOnSpace(_)
SplitOnSpace(s) ==
  LET sp == {i \in 1..Len(s) : s[i] = " "}
  IN  IF sp = {} THEN <<s>>
      ELSE LET k == CHOOSE i \in sp : \A j \in sp : i <= j
           IN  <<SubSeq(s, 1, k - 1)>> \o SplitOnSpace(SubSeq(s, k + 1, Len(s)))

(***************************************************************************)
(* Sample texts.                                                           *)
(***************************************************************************)
\* "OK" (2 characters)
TxtOk ==
  <<"O","K">>

\* "hello world" (11 characters)
TxtHello ==
  <<"h","e","l","l","o"," ","w","o","r","l","d">>

\* "Hello World " (12 characters; simplifies to "hello world")
TxtHelloPad ==
  <<"H","e","l","l","o"," ","W","o","r","l","d"," ">>

\* "hello world once more" (21 characters; contains "hello world")
TxtHelloMore ==
  <<"h","e","l","l","o"," ","w","o","r","l","d"," ","o","n","c","e"," ","m","o","r","e">>

\* "   padded9 " (11 characters; simplifies to 7)
TxtPadded ==
  <<" "," "," ","p","a","d","d","e","d","9"," ">>

\* "abcdefghij" (10 characters)
TxtTen ==
  <<"a","b","c","d","e","f","g","h","i","j">>

\* "Demo text from a screen capture" (31 characters), MOCK_SCREEN_DATA[0].content.text
TxtDemo ==
  <<"D","e","m","o"," ","t","e","x","t"," ","f","r","o","m"," ","a"," ","s","c","r","e","e","n"," ","c","a","p","t","u","r","e">>

\* "demo text from a screen" (23 characters)
TxtDemoPart ==
  <<"d","e","m","o"," ","t","e","x","t"," ","f","r","o","m"," ","a"," ","s","c","r","e","e","n">>

\* "another screen entirely" (23 characters)
TxtOther ==
  <<"a","n","o","t","h","e","r"," ","s","c","r","e","e","n"," ","e","n","t","i","r","e","l","y">>

\* "quick brown fox jumps over" (26 characters)
TxtFox ==
  <<"q","u","i","c","k"," ","b","r","o","w","n"," ","f","o","x"," ","j","u","m","p","s"," ","o","v","e","r">>

\* "This is a sample transcript from an audio capture" (49 characters),
\* MOCK_SCREEN_DATA[1].content.transcription
TxtAudio ==
  <<"T","h","i","s"," ","i","s"," ","a"," ","s","a","m","p","l","e"," ","t","r","a","n","s","c","r","i","p","t"," ","f","r","o","m"," ","a","n"," ","a","u","d","i","o"," ","c","a","p","t","u","r","e">>

(***************************************************************************)
(* ScreenActivityItem (screenpipe.ts 11-24).  hasContent is FALSE for a    *)
(* malformed item with no content object; an absent text or transcription  *)
(* is the empty sequence: both are falsy in the tests of lines 147-151.    *)
(***************************************************************************)
Item(type, text, transcription) ==
  [type |-> type, hasContent |-> TRUE, text |-> text, transcription |-> transcription]

MOCK_SCREEN_DATA == <<Item("OCR", TxtDemo, <<>>), Item("Audio", <<>>, TxtAudio)>>

\* well-typed items handed to deduplicateScreenData
ItemPool ==
  { Item("OCR", TxtOk, <<>>),
    Item("OCR", TxtHello, <<>>),
    Item("OCR", TxtHelloPad, <<>>),
    Item("OCR", TxtHelloMore, <<>>),
    Item("OCR", TxtPadded, <<>>),
    Item("OCR", TxtDemo, <<>>),
    Item("OCR", TxtDemoPart, <<>>),
    Item("UI", TxtOther, <<>>),
    Item("Audio", TxtTen, <<>>),
    Item("Audio", TxtFox, TxtAudio),
    Item("OCR", <<>>, TxtFox) }

SeqsUpTo(S, n) == UNION {[1..k -> S] : k \in 0..n}

(***************************************************************************)
(* deduplicateScreenData and simpleSimilarityCheck.                        *)
(***************************************************************************)
\* line 159: the shortest simplified content that is kept
MIN_CONTENT_LENGTH == 10

\* line 193: below this length of the shorter string only an exact match counts
EXACT_MATCH_LENGTH == 20

\* line 197: a shared word counts when it is longer than this
WORD_LENGTH == 4

\* lines 145-153
TextContent(item) ==
  IF item.type = "OCR" /\ item.text # <<>> THEN item.text
  ELSE IF item.type = "Audio" /\ item.transcription # <<>> THEN item.transcription
  ELSE IF item.text # <<>> THEN item.text
  ELSE <<>>

SimplifiedContent_NoLower(item) == Trim(TextContent(item))

SimplifiedContent_NoTrim(item) == ToLowerCase(TextContent(item))

\* line 156
SimplifiedContent(item) == Trim(ToLowerCase(TextContent(item)))

\* a check that compares whole strings only
simpleSimilarityCheck_NoWords(a, b) ==
  LET shorterLength == IF Len(a) < Len(b) THEN Len(a) ELSE Len(b)
  IN  IF shorterLength < EXACT_MATCH_LENGTH THEN a = b
      ELSE Includes(a, b) \/ Includes(b, a)

\* lines 186-199
simpleSimilarityCheck(a, b) ==
  LET shorterLength == IF Len(a) < Len(b) THEN Len(a) ELSE Len(b)
      longerString  == IF Len(a) > Len(b) THEN a ELSE b
      shorterString == IF Len(a) > Len(b) THEN b ELSE a
      words         == SplitOnSpace(shorterString)
  IN  IF shorterLength < EXACT_MATCH_LENGTH THEN a = b
      ELSE \/ Includes(longerString, shorterString)
           \/ \E i \in 1..Len(words) :
                /\ Len(words[i]) > WORD_LENGTH
                /\ Includes(longerString, words[i])

\* line 159
SkipItem(simplified, seen) ==
  Len(simplified) < MIN_CONTENT_LENGTH \/ simplified \in seen

\* lines 164-171
IsDuplicate(simplified, seen) ==
  \E existing \in seen : simpleSimilarityCheck(existing, simplified)

PushItem_Front(unique, item) == <<item>> \o unique

\* line 175
PushItem(unique, item) == Append(unique, item)

\* lines 143-177: one iteration of the loop on a state [unique, seen]
LoopBody(st, item) ==
  LET simplified == SimplifiedContent(item)
  IN  IF SkipItem(simplified, st.seen) THEN st
      ELSE IF IsDuplicate(simplified, st.seen) THEN st
      ELSE [unique |-> PushItem(st.unique, item), seen |-> st.seen \cup {simplified}]

RECURSIVE LoopFrom(_, _, _)
LoopFrom(st, items, i) ==
  IF i > Len(items) THEN st ELSE LoopFrom(LoopBody(st, items[i]), items, i + 1)

\* lines 137-180, for a sequence of items that all have a content object
deduplicateScreenData(items) ==
  IF Len(items) = 0 THEN items
  ELSE LoopFrom([unique |-> <<>>, seen |-> {}], items, 1).unique

(***************************************************************************)
(* queryRecentActivity (screenpipe.ts 50-131).                             *)
(*                                                                         *)
(* A completion is how a block of code ends: it returns a value            *)
(* ([t |-> "return", v |-> items]) or throws ([t |-> "throw", e |-> kind]).*)
(***************************************************************************)
\* line 62: the setTimeout delay, 15000 ms, in seconds
TIMEOUT_S == 15

Return(v) == [t |-> "return", v |-> v, e |-> "none"]

Throw(e) == [t |-> "throw", v |-> <<>>, e |-> e]

\* an item with no content object: item.content.text raises a TypeError (line 147)
BadItem == [type |-> "OCR", hasContent |-> FALSE, text |-> <<>>, transcription |-> <<>>]

\* the items a page of the capture service is made of
PagePool ==
  { Item("OCR", TxtOk, <<>>),
    Item("OCR", TxtHello, <<>>),
    Item("OCR", TxtDemo, <<>>),
    Item("OCR", TxtFox, <<>>),
    BadItem }

\* what pipe.queryScreenpipe can reject with:
\*   "browser"      an Error whose message includes 'self is not defined'
\*   "ECONNREFUSED" an Error with any other message
\*   "nullish"      undefined or null: reading error.message raises a TypeError
\*   "unstringable" a non-Error object that String() cannot convert
ErrorKinds == {"browser", "ECONNREFUSED", "nullish", "unstringable"}

Rejected(e) ==
  [state |-> "rejected", err |-> e, isNull |-> FALSE,
   hasData |-> FALSE, data |-> <<>>, hasPagination |-> FALSE]

FulfilledNull ==
  [state |-> "fulfilled", err |-> "none", isNull |-> TRUE,
   hasData |-> FALSE, data |-> <<>>, hasPagination |-> FALSE]

Fulfilled(hasData, data, hasPagination) ==
  [state |-> "fulfilled", err |-> "none", isNull |-> FALSE,
   hasData |-> hasData, data |-> data, hasPagination |-> hasPagination]

\* the query promise before it settles
Pending ==
  [state |-> "pending", err |-> "none", isNull |-> FALSE,
   hasData |-> FALSE, data |-> <<>>, hasPagination |-> FALSE]

\* every way the promise of pipe.queryScreenpipe settles in the model
Settlements ==
  {Rejected(e) : e \in ErrorKinds}
    \cup {FulfilledNull, Fulfilled(FALSE, <<>>, TRUE), Fulfilled(FALSE, <<>>, FALSE)}
    \cup {Fulfilled(TRUE, page, TRUE) : page \in SeqsUpTo(PagePool, MaxPage)}
    \cup {Fulfilled(TRUE, page, FALSE) : page \in SeqsUpTo(PagePool, 1)}

\* lines 71-83: the .catch handler chained on the query promise
CatchHandler(p) ==
  IF p.state # "rejected" THEN p
  ELSE IF p.err = "nullish" THEN Rejected("TypeError")
  ELSE IF p.err = "browser" THEN FulfilledNull
  ELSE p

OnNoResults_Empty == <<>>

\* lines 88-91: the race gave null
OnNoResults == MOCK_SCREEN_DATA

OnEmptyPage_Empty == <<>>

\* lines 93-96: no data field or no items
OnEmptyPage == MOCK_SCREEN_DATA

\* a completion that returns the page as it came
DeduplicateCompletion_Raw(items) ==
  IF \E i \in 1..Len(items) : ~items[i].hasContent THEN Throw("TypeError")
  ELSE Return(items)

\* lines 137-180 on any items: reading the content of an item without one throws
DeduplicateCompletion(items) ==
  IF \E i \in 1..Len(items) : ~items[i].hasContent THEN Throw("TypeError")
  ELSE Return(deduplicateScreenData(items))

\* lines 86-104: the inner try block from the await on, given what the race gave:
\* the settled query promise (after its .catch handler), or null from the timer
TryBody(raced) ==
  IF raced.state = "rejected" THEN Throw(raced.err)
  ELSE IF raced.isNull THEN Return(OnNoResults)
  ELSE IF ~raced.hasData \/ Len(raced.data) = 0 THEN Return(OnEmptyPage)
  ELSE IF ~raced.hasPagination THEN Throw("TypeError")
  ELSE DeduplicateCompletion(raced.data)

InnerCatch_Empty(e) == IF e = "unstringable" THEN Throw("TypeError") ELSE Return(<<>>)

\* lines 105-126: String(pipeError) throws for a value it cannot convert
InnerCatch(e) ==
  IF e = "unstringable" THEN Throw("TypeError") ELSE Return(MOCK_SCREEN_DATA)

\* lines 127-130
OuterCatch(e) == Return(MOCK_SCREEN_DATA)

\* lines 50-131 from the await of line 86 on
QueryRecentActivityFrom(raced) ==
  LET body  == TryBody(raced)
      inner == IF body.t = "throw" THEN InnerCatch(body.e) ELSE body
  IN  IF inner.t = "throw" THEN OuterCatch(inner.e) ELSE inner

\* part_004 lines 167-172 and insights/page.tsx lines 310-315: the 404 test
NoActivityDataFound(activityData) == Len(activityData) = 0

CaptureIdle ==
  /\ qpc = "idle" /\ now = 0 /\ startedAt = 0
  /\ timerFired = FALSE /\ querySettled = FALSE
  /\ qOutcome = Pending /\ winner = "none"
  /\ qReturn = <<>> /\ qThrew = FALSE

(***************************************************************************)
(* sendToNebiusAI, generateInsightsFromActivity and saveInsight            *)
(* (screenpipe.ts 609-850), with dbConnect of db.ts.                       *)
(***************************************************************************)
\* line 621
MAX_RETRIES == 3

\* line 716: the base of the backoff delay, in ms
BACKOFF_BASE_MS == 1000

\* lines 610-615
MOCK_INSIGHTS ==
  [productivity |-> "You've been using multiple applications frequently. Consider using keyboard shortcuts to switch between them more efficiently.",
   automation |-> "I noticed you copy and paste text frequently. Consider using a clipboard manager to store multiple items.",
   recommendation |-> "Based on your recent activity, you might want to take a short break every 30 minutes to reduce eye strain.",
   reminder |-> "Don't forget to save your work periodically. I noticed you haven't saved in the last 15 minutes."]

\* Object.keys(MOCK_INSIGHTS)
OwnKeys == DOMAIN MOCK_INSIGHTS

\* property names every object literal inherits from Object.prototype
ObjectPrototypeKeys ==
  {"constructor", "toString", "toLocaleString", "valueOf", "hasOwnProperty",
   "isPrototypeOf", "propertyIsEnumerable", "__proto__"}

\* what reading an inherited property of MOCK_INSIGHTS gives: not one of its strings
InheritedValue(key) == "[inherited Object.prototype." \o key \o "]"

\* lines 793 and 810: `insightType in MOCK_INSIGHTS` looks up the prototype chain too
HasProperty(key) == key \in OwnKeys \cup ObjectPrototypeKeys

\* lines 794 and 811: MOCK_INSIGHTS[insightType]
Lookup(key) == IF key \in OwnKeys THEN MOCK_INSIGHTS[key] ELSE InheritedValue(key)

\* AIInsightSchema (part_003 lines 14-18): the insightType enum
InsightTypeEnum == {"productivity", "automation", "recommendation", "reminder"}

\* the insightType values callers pass in the model: the four categories, a category
\* that does not exist, and a name every object inherits
InsightTypes == InsightTypeEnum \cup {"summary", "toString"}

\* the text of a completion the endpoint generates
ApiTexts == {"<generated completion>"}

\* statuses of the responses that carry an error
ErrorStatuses == {400, 401, 404, 429, 500}

\* the value sendToNebiusAI resolves with: result and the metadata fields read later
Response(result, source, errorType, hasRetryAttempts, retryAttempts) ==
  [result |-> result, source |-> source, errorType |-> errorType,
   hasRetryAttempts |-> hasRetryAttempts, retryAttempts |-> retryAttempts]

NoResponse == Response("", "none", "none", FALSE, 0)

\* lines 628-631
MissingConfigResponse == Response(MOCK_INSIGHTS.recommendation, "mock", "none", FALSE, 0)

\* lines 671-674
ApiResponse(text) == Response(text, "api", "none", FALSE, 0)

\* lines 735-744
FallbackResponse(errorType, rc) ==
  Response(MOCK_INSIGHTS.recommendation, "mock", errorType, TRUE, rc)

\* lines 746-758: the outer catch of attemptRequest
OuterFallbackResponse == Response(MOCK_INSIGHTS.recommendation, "mock", "none", FALSE, 0)

\* lines 692-704: errorType by status
StatusErrorType(status) ==
  IF status = 401 THEN "authentication_error"
  ELSE IF status = 429 THEN "rate_limit_exceeded"
  ELSE IF status = 400 THEN "invalid_request"
  ELSE IF status >= 500 THEN "server_error"
  ELSE "api_error"

\* lines 680-704: a failure that carries a response; errorData.error of a null body
\* raises a TypeError (line 700), which the outer catch of line 746 turns into its own
\* fallback
ResponseErrorResult(status, bodyNull, rc) ==
  IF status = 400 /\ bodyNull THEN OuterFallbackResponse
  ELSE FallbackResponse(StatusErrorType(status), rc)

IsRetryable_OneMore(kind, rc) == kind = "network" /\ rc <= MAX_RETRIES

IsRetryable_AlsoResponse(kind, rc) == kind \in {"network", "response"} /\ rc < MAX_RETRIES

\* lines 705-712: only a failure with a request and no response is retried
IsRetryable(kind, rc) == kind = "network" /\ rc < MAX_RETRIES

BackoffDelay_Linear(rc) == BACKOFF_BASE_MS * rc

\* line 716: 1000 * 2 ** (retryCount - 1), with retryCount already incremented
BackoffDelay(rc) == BACKOFF_BASE_MS * 2 ^ (rc - 1)

\* lines 791-795
ApplyCategory(resp, type) ==
  IF resp.source = "mock" /\ HasProperty(type)
    THEN [resp EXCEPT !.result = Lookup(type)]
    ELSE resp

\* the schema validation run by aiInsight.save() (line 843)
ValidInsight(type) == type \in InsightTypeEnum

\* lines 821-850: how saveInsight ends, given whether dbConnect and the write succeed
SaveInsightOutcome(connected, connectOk, writeOk, type) ==
  IF ~connected /\ ~connectOk THEN "connectFailed"
  ELSE IF ~ValidInsight(type) THEN "invalid"
  ELSE IF ~writeOk THEN "writeFailed"
  ELSE "saved"

RetText(text) == [t |-> "return", text |-> text]

ThrowText == [t |-> "throw", text |-> ""]

OnSaveError_Rethrow(result) == ThrowText

\* lines 800-805: the error of saveInsight is logged, and line 805 returns
OnSaveError(result) == RetText(result)

\* lines 806-815
GenerateCatch(type) ==
  IF HasProperty(type) THEN Lookup(type) ELSE MOCK_INSIGHTS.recommendation

\* lines 773-815: how generateInsightsFromActivity ends, given what sendToNebiusAI
\* resolved with and how saveInsight ended: the catch of line 806 turns any throw of
\* the try block into a return
GenerateCompletion(resp, type, outcome) ==
  LET result == ApplyCategory(resp, type).result
      c == IF outcome = "saved" THEN RetText(result) ELSE OnSaveError(result)
  IN  IF c.t = "throw" THEN RetText(GenerateCatch(type)) ELSE c

\* lines 831-841: the document saveInsight creates
NewInsight(insight, type) ==
  [insight |-> insight, insightType |-> type, priority |-> 0, status |-> "new"]

InsightIdle ==
  /\ gpc = "idle" /\ insightType = "recommendation" /\ apiConfigured = TRUE
  /\ retryCount = 0 /\ requests = 0 /\ delays = <<>> /\ attempts = <<>>
  /\ lastStatus = 0 /\ lastBodyNull = FALSE
  /\ aiResponse = NoResponse /\ saveOutcome = "none"
  /\ returned = "" /\ genThrew = FALSE /\ calls = 0
  /\ isConnected = FALSE /\ insights = <<>>

(***************************************************************************)
(* dbConnect of db.ts. The function tests isConnected (line 13), awaits    *)
(* mongoose.connect (line 19) and only then sets the flag (line 23): a     *)
(* handler is suspended at the await, and other handlers run meanwhile.    *)
(***************************************************************************)
Handlers == 1..NumHandlers

\* a catch block that returns instead of rethrowing
ConnectCatch_Swallow(error) == Return("mongoose")

\* lines 26-29: the catch block logs and rethrows
ConnectCatch(error) == Throw(error)

DbIdle ==
  /\ hpc = [h \in Handlers |-> "idle"]
  /\ connectCalls = 0 /\ rejects = 0 /\ dbCalls = 0
  /\ dbOutcome = [h \in Handlers |-> "none"]
  /\ dbAttempts = [h \in Handlers |-> 0]
  /\ linkUp = FALSE

(***************************************************************************)
(* The retrying revision of dbConnect (screenpipe.ts 1207-1276).           *)
(***************************************************************************)
\* lines 1217 and 1218
DB_MAX_RETRIES == 3

RETRY_INTERVAL_MS == 5000

\* an entry test without the test of the retry count
DbRetryEntry_NoGuard(connected, count) == IF connected THEN "cached" ELSE "connect"

\* lines 1225-1233: what a dbConnect call, or the recursive call of line 1269, does
\* first: return the cached handle, throw, or call mongoose.connect
DbRetryEntry(connected, count) ==
  IF connected THEN "cached"
  ELSE IF count >= DB_MAX_RETRIES THEN "exhausted"
  ELSE "connect"

\* a test that allows one more retry
RetryAgain_Extra(count) == count <= DB_MAX_RETRIES

\* line 1267, on the count line 1261 has incremented
RetryAgain(count) == count < DB_MAX_RETRIES

RetryIdle ==
  /\ dbRetryCount = 0
  /\ dbWaits = [h \in Handlers |-> <<>>]
  /\ storeUp = TRUE

(***************************************************************************)
(* The AIInsight collection: getInsights, updateInsightStatus              *)
(* (screenpipe.ts 855-936) and the PATCH handler (insights/page.tsx        *)
(* 347-386). A stored document's _id stands for its place in the           *)
(* collection; identifiers are strings of characters, as startsWith reads  *)
(* them. A listed record is a document or a canned record reduced to the   *)
(* fields the filters read: _id, insightType and status.                   *)
(***************************************************************************)
Digits == <<"0", "1", "2", "3", "4", "5", "6", "7", "8", "9">>

\* String.prototype.startsWith
StartsWith(s, prefix) == Len(s) >= Len(prefix) /\ SubSeq(s, 1, Len(prefix)) = prefix

\* lines 882 and 923: the prefix of a canned record's _id
MockPrefix == <<"m", "o", "c", "k", "-">>

\* line 882: `mock-${index}`
MockId(index) == MockPrefix \o <<Digits[index + 1]>>

\* the _id of the i-th document created in the collection
DocId(i) == <<"i", "d", Digits[i + 1]>>

\* line 864: the default of a limit that was not given
DEFAULT_LIMIT == 10

\* the options object of getInsights; '' stands for an absent (or empty) filter
Options(status, type, hasLimit, limit, offset) ==
  [status |-> status, insightType |-> type, hasLimit |-> hasLimit, limit |-> limit,
   offset |-> offset]

NoOptions == Options("", "", FALSE, 0, 0)

\* line 864: const { limit = 10 } = options
LimitOf(options) == IF options.hasLimit THEN options.limit ELSE DEFAULT_LIMIT

\* line 913: options.limit || 10
LimitOrDefault(options) ==
  IF options.hasLimit /\ options.limit # 0 THEN options.limit ELSE DEFAULT_LIMIT

\* Array.prototype.slice(0, n)
Slice(s, n) == SubSeq(s, 1, IF n < Len(s) THEN n ELSE Len(s))

\* the documents of the collection as listed records
StoredRecords(docs) ==
  [i \in 1..Len(docs) |->
     [id |-> DocId(i), insightType |-> docs[i].insightType, status |-> docs[i].status]]

\* line 871: sort({ createdAt: -1 }), documents being kept in creation order
NewestFirst(s) == [i \in 1..Len(s) |-> s[Len(s) + 1 - i]]

\* lines 866-868: the query keeps a filter only when it is truthy
QueryMatches(rec, options) ==
  /\ (options.status # "" => rec.status = options.status)
  /\ (options.insightType # "" => rec.insightType = options.insightType)

\* line 872: skip(offset)
SkipDocs(s, offset) == SubSeq(s, offset + 1, Len(s))

\* line 873: limit(limit); the store reads a limit of 0 as no limit
LimitDocs(s, limit) == IF limit = 0 THEN s ELSE Slice(s, limit)

\* lines 870-873
FindInsights(docs, options) ==
  LimitDocs(
    SkipDocs(SelectSeq(NewestFirst(StoredRecords(docs)),
                       LAMBDA rec : QueryMatches(rec, options)),
             options.offset),
    LimitOf(options))

\* lines 880 and 904: Object.keys(MOCK_INSIGHTS), in insertion order (lines 610-615)
MockInsightTypes == <<"productivity", "automation", "recommendation", "reminder">>

\* lines 881-889 and 905-913: the canned records
MockInsightsData ==
  [index \in 1..Len(MockInsightTypes) |->
     [id |-> MockId(index - 1), insightType |-> MockInsightTypes[index], status |-> "new"]]

\* a filter that reads the category only
MockFilter_IgnoreStatus(rec, options) ==
  options.insightType # "" => rec.insightType = options.insightType

\* lines 892-896: the filter callback
MockFilter(rec, options) ==
  IF options.status # "" /\ rec.status # options.status THEN FALSE
  ELSE IF options.insightType # "" /\ rec.insightType # options.insightType THEN FALSE
  ELSE TRUE

\* lines 876-897: nothing was found
EmptyStoreSample(options) ==
  Slice(SelectSeq(MockInsightsData, LAMBDA rec : MockFilter(rec, options)),
        LimitOf(options))

\* lines 900-914: the catch block
ReadFailureSample(options) == Slice(MockInsightsData, LimitOrDefault(options))

\* lines 861-915: readOk is false when dbConnect or the find rejects
getInsights(docs, options, readOk) ==
  IF ~readOk THEN [path |-> "failed", records |-> ReadFailureSample(options)]
  ELSE IF Len(FindInsights(docs, options)) = 0
    THEN [path |-> "empty", records |-> EmptyStoreSample(options)]
  ELSE [path |-> "store", records |-> FindInsights(docs, options)]

\* line 930: findByIdAndUpdate(insightId, { status }) sets the path without running the
\* schema's validators, which an update runs only when asked to
FindByIdAndUpdate(docs, insightId, status) ==
  [i \in 1..Len(docs) |->
     IF DocId(i) = insightId THEN [docs[i] EXCEPT !.status = status] ELSE docs[i]]

\* line 931: the document that was found, if any
FoundById(docs, insightId) == \E i \in 1..Len(docs) : DocId(i) = insightId

\* lines 920-936: the value updateInsightStatus resolves with
UpdateResult(docs, insightId, status, storeOk) ==
  IF StartsWith(insightId, MockPrefix) THEN TRUE
  ELSE IF ~storeOk THEN FALSE
  ELSE FoundById(docs, insightId)

\* lines 920-936: the collection after the call
UpdatedDocs(docs, insightId, status, storeOk) ==
  IF StartsWith(insightId, MockPrefix) \/ ~storeOk THEN docs
  ELSE FindByIdAndUpdate(docs, insightId, status)

\* insights/page.tsx lines 352-374: the status of the PATCH handler's answer
PatchStatus(insightId, status, updated) ==
  IF insightId = <<>> \/ status = "" THEN 400
  ELSE IF ~updated THEN 404
  ELSE 200

StoreIdle ==
  /\ listOptions = NoOptions /\ listPath = "none" /\ listResult = <<>>
  /\ patchBody = [insightId |-> <<>>, status |-> ""] /\ patchStatus = 0

(***************************************************************************)
(* The /activity route (part_004): the rate limiter, GET and POST; and     *)
(* POST /insights (insights/page.tsx 301-344). Header and parameter values *)
(* that the code parses are strings of characters.                         *)
(***************************************************************************)
\* part_004 lines 5-8
RATE_LIMIT == [windowMs |-> 60 * 1000, maxRequests |-> 10]

\* a || b on strings: the empty string is falsy
OrDefault(s, d) == IF Len(s) = 0 THEN d ELSE s

\* part_004 lines 42 and 108: the x-forwarded-for header, or 'unknown'
ClientIp(forwardedFor) == IF forwardedFor = "" THEN "unknown" ELSE forwardedFor

\* the values of the x-forwarded-for header in the model, '' when it is absent
ForwardedFor == {"", "203.0.113.7"}

Ips == {ClientIp(h) : h \in ForwardedFor}

\* an address the Map has no entry for (line 16), and an entry (lines 17 and 25)
NoEntry == [present |-> FALSE, count |-> 0, resetTime |-> 0]

Entry(count, resetTime) == [present |-> TRUE, count |-> count, resetTime |-> resetTime]

\* a test that lets one more request through
Exceeds_Late(count) == count > RATE_LIMIT.maxRequests + 1

\* line 31
Exceeds(count) == count > RATE_LIMIT.maxRequests

\* a test that keeps the window for a second period
WindowPassed_Late(t, entry) == t > entry.resetTime + RATE_LIMIT.windowMs

\* line 24
WindowPassed(t, entry) == t > entry.resetTime

\* a limiter whose window restarts at every request
checkRateLimit_Sliding(entry, t) ==
  IF ~entry.present \/ WindowPassed(t, entry)
    THEN [allowed |-> TRUE, entry |-> Entry(1, t + RATE_LIMIT.windowMs)]
  ELSE [allowed |-> ~Exceeds(entry.count + 1),
        entry |-> Entry(entry.count + 1, t + RATE_LIMIT.windowMs)]

\* lines 13-36: the value returned, and the entry of the address afterwards
checkRateLimit(entry, t) ==
  IF ~entry.present
    THEN [allowed |-> TRUE, entry |-> Entry(1, t + RATE_LIMIT.windowMs)]
  ELSE IF WindowPassed(t, entry)
    THEN [allowed |-> TRUE, entry |-> Entry(1, t + RATE_LIMIT.windowMs)]
  ELSE [allowed |-> ~Exceeds(entry.count + 1),
        entry |-> Entry(entry.count + 1, entry.resetTime)]

\* the requests let through in the address's window, after one more call
AcceptedAfter(entry, t, n) ==
  IF ~entry.present \/ WindowPassed(t, entry) THEN 1
  ELSE IF checkRateLimit(entry, t).allowed THEN n + 1
  ELSE n

IsDigit(c) == \E d \in 1..10 : Digits[d] = c

DigitValue(c) == (CHOOSE d \in 1..10 : Digits[d] = c) - 1

RECURSIVE LeadingDigits(_)
LeadingDigits(s) ==
  IF Len(s) = 0 \/ ~IsDigit(Head(s)) THEN <<>>
  ELSE <<Head(s)>> \o LeadingDigits(Tail(s))

RECURSIVE DecimalValue(_)
DecimalValue(ds) ==
  IF Len(ds) = 0 THEN 0
  ELSE 10 * DecimalValue(SubSeq(ds, 1, Len(ds) - 1)) + DigitValue(ds[Len(ds)])

\* parseInt(s, 10) on a string without sign or leading blanks: the value of the
\* leading digits, NaN when there is none
ParseInt(s) ==
  IF Len(LeadingDigits(s)) = 0 THEN [nan |-> TRUE, n |-> 0]
  ELSE [nan |-> FALSE, n |-> DecimalValue(LeadingDigits(s))]

\* part_004 lines 58 and 150
DefaultMinutes == <<"5">>

\* part_004 lines 61 and 153, negated
ValidMinutes(m) == ~(m.nan \/ m.n <= 0 \/ m.n > 60)

\* the values of the minutes parameter in the model: absent, "30", "0", "61", "abc"
MinutesParams == {<<>>, <<"3", "0">>, <<"0">>, <<"6", "1">>, <<"a", "b", "c">>}

\* String.prototype.replace(pattern, replacement) with a string pattern: the first
\* occurrence only
Replace(s, pattern, replacement) ==
  LET hits == {i \in 1..(Len(s) - Len(pattern) + 1) :
                 SubSeq(s, i, i + Len(pattern) - 1) = pattern}
  IN  IF hits = {} THEN s
      ELSE LET i == CHOOSE h \in hits : \A g \in hits : h <= g
           IN  SubSeq(s, 1, i - 1) \o replacement \o SubSeq(s, i + Len(pattern), Len(s))

\* part_004 line 136: 'Bearer '
BearerPrefix == <<"B", "e", "a", "r", "e", "r", " ">>

\* the configured secret in the model, and another token
SecretKey == <<"s", "3", "c">>

OtherKey == <<"x", "9", "z">>

\* the values of the authorization header in the model, <<>> when it is absent
AuthHeaders ==
  { <<>>,
    BearerPrefix \o SecretKey,
    BearerPrefix \o OtherKey,
    SecretKey,
    <<"s">> \o BearerPrefix \o <<"3", "c">>,
    <<"B", "a", "s", "i", "c", " ">> \o SecretKey }

\* part_004 lines 123-146: the request passes the authorization check
Authorized(authHeader, secret) ==
  IF Len(authHeader) = 0 \/ Len(secret) = 0 THEN FALSE
  ELSE Replace(authHeader, BearerPrefix, <<>>) = secret

\* screenpipe.ts lines 59-86: what the race gives when the query settles as s; Pending
\* stands for a query that has not settled when the timer fires
RaceResult(s) == IF s.state = "pending" THEN FulfilledNull ELSE CatchHandler(s)

\* a health check that lets the failure of the health query escape
isScreenpipeAvailable_Throws(health) ==
  IF health = "fulfilled" THEN Return(TRUE)
  ELSE [t |-> "throw", v |-> FALSE, e |-> "unavailable"]

\* screenpipe.ts lines 381-404: health is how the health query ends ("fulfilled",
\* "rejected", or "pending" when the 3 s timer wins); both branches give a boolean
isScreenpipeAvailable(health) == Return(health = "fulfilled")

\* the capture service is unreachable or erroring
CaptureDown(s) == s.state \in {"rejected", "pending"}

\* a page of three captures that differ, a page of two, and a page of one short
\* capture
LivePage ==
  <<Item("OCR", TxtHello, <<>>), Item("OCR", TxtDemo, <<>>), Item("OCR", TxtFox, <<>>)>>

TwoPage == <<Item("OCR", TxtHello, <<>>), Item("OCR", TxtFox, <<>>)>>

ShortPage == <<Item("OCR", TxtOk, <<>>)>>

\* the capture service during one request: how the query and the health query end
CaptureEnvs ==
  { [settlement |-> Rejected("ECONNREFUSED"), health |-> "rejected"],
    [settlement |-> Rejected("unstringable"), health |-> "rejected"],
    [settlement |-> Pending, health |-> "pending"],
    [settlement |-> Fulfilled(TRUE, LivePage, TRUE), health |-> "fulfilled"],
    [settlement |-> Fulfilled(TRUE, LivePage, TRUE), health |-> "pending"],
    [settlement |-> Fulfilled(TRUE, TwoPage, TRUE), health |-> "fulfilled"],
    [settlement |-> Fulfilled(TRUE, ShortPage, TRUE), health |-> "fulfilled"] }

\* what isScreenpipeAvailable and queryRecentActivity give a handler in each of them
CaptureRuns ==
  { [down |-> CaptureDown(env.settlement),
     available |-> isScreenpipeAvailable(env.health),
     completion |-> QueryRecentActivityFrom(RaceResult(env.settlement))] :
    env \in CaptureEnvs }

\* part_004 lines 88, 183, 192 and insights/page.tsx line 318
SourceOf(activityData) == IF Len(activityData) <= 2 THEN "mock" ELSE "live"

\* what a handler did and answered: the HTTP status, success, source, whether a note
\* was added, whether queryRecentActivity was called, the number of records
\* saveScreenActivity inserted, and the insight text
Answer(status, success, source, note, queried, saved, text) ==
  [status |-> status, success |-> success, source |-> source, note |-> note,
   queried |-> queried, saved |-> saved, text |-> text]

NoAnswer == Answer(0, FALSE, "none", FALSE, FALSE, 0, "")

\* part_004 lines 39-102, from the value checkRateLimit returned
GetActivityAnswer(allowed, minutesParam, cap) ==
  IF ~allowed THEN Answer(429, FALSE, "none", FALSE, FALSE, 0, "")
  ELSE IF ~ValidMinutes(ParseInt(OrDefault(minutesParam, DefaultMinutes)))
    THEN Answer(400, FALSE, "none", FALSE, FALSE, 0, "")
  ELSE IF cap.available.t = "throw" THEN Answer(500, FALSE, "none", FALSE, FALSE, 0, "")
  ELSE IF cap.completion.t = "throw" THEN Answer(500, FALSE, "none", FALSE, TRUE, 0, "")
  ELSE Answer(200, TRUE, SourceOf(cap.completion.v), ~cap.available.v, TRUE, 0, "")

\* part_004 lines 105-206, from the value checkRateLimit returned; saveOk is false
\* when saveScreenActivity rejects (screenpipe.ts 204-245)
PostActivityAnswer(allowed, authHeader, secret, minutesParam, cap, saveOk) ==
  IF ~allowed THEN Answer(429, FALSE, "none", FALSE, FALSE, 0, "")
  ELSE IF ~Authorized(authHeader, secret)
    THEN Answer(401, FALSE, "none", FALSE, FALSE, 0, "")
  ELSE IF ~ValidMinutes(ParseInt(OrDefault(minutesParam, DefaultMinutes)))
    THEN Answer(400, FALSE, "none", FALSE, FALSE, 0, "")
  ELSE IF cap.completion.t = "throw" THEN Answer(500, FALSE, "none", FALSE, TRUE, 0, "")
  ELSE IF NoActivityDataFound(cap.completion.v)
    THEN Answer(404, FALSE, "none", FALSE, TRUE, 0, "")
  ELSE IF saveOk
    THEN Answer(200, TRUE, SourceOf(cap.completion.v), FALSE, TRUE,
                Len(cap.completion.v), "")
  ELSE Answer(200, FALSE, SourceOf(cap.completion.v), FALSE, TRUE, 0, "")

\* the answers of the completion endpoint to the axios.post calls of one
\* sendToNebiusAI call, in order
Outcome(kind, status, bodyNull) == [kind |-> kind, status |-> status, bodyNull |-> bodyNull]

Always(o) == [i \in 1..(MAX_RETRIES + 1) |-> o]

EndpointBehaviours ==
  { Always(Outcome("ok", 200, FALSE)),
    Always(Outcome("network", 0, FALSE)),
    <<Outcome("network", 0, FALSE)>> \o SubSeq(Always(Outcome("ok", 200, FALSE)), 1, MAX_RETRIES),
    Always(Outcome("response", 500, FALSE)),
    Always(Outcome("response", 400, TRUE)),
    Always(Outcome("empty", 200, TRUE)) }

\* the completion endpoint is unreachable or erroring
EndpointDown(outcomes) == \E i \in 1..Len(outcomes) : outcomes[i].kind # "ok"

\* screenpipe.ts lines 634-745: attemptRequest with retry count rc, the endpoint
\* answering the calls from here on as outcomes says
RECURSIVE AttemptRequest(_, _)
AttemptRequest(rc, outcomes) ==
  LET o == Head(outcomes)
  IN  IF o.kind = "ok" THEN ApiResponse(CHOOSE text \in ApiTexts : TRUE)
      ELSE IF IsRetryable(o.kind, rc) THEN AttemptRequest(rc + 1, Tail(outcomes))
      ELSE IF o.kind = "response" THEN ResponseErrorResult(o.status, o.bodyNull, rc)
      ELSE IF o.kind = "network" THEN FallbackResponse("network_error", rc)
      ELSE FallbackResponse("request_setup_error", rc)

\* screenpipe.ts lines 620-764
sendToNebiusAI(configured, outcomes) ==
  IF ~configured THEN MissingConfigResponse ELSE AttemptRequest(0, outcomes)

\* what sendToNebiusAI resolves with under each behaviour of the endpoint
EndpointRuns ==
  { [down |-> EndpointDown(b), response |-> sendToNebiusAI(TRUE, b)] :
    b \in EndpointBehaviours }

\* insights/page.tsx line 305
DefaultType == "recommendation"

\* the values of the type parameter in the model, '' when it is absent
TypeParams == {"", "productivity", "summary"}

\* insights/page.tsx lines 301-344; outcome is how saveInsight ended
PostInsightsAnswer(typeParam, cap, resp, outcome) ==
  LET type == IF typeParam = "" THEN DefaultType ELSE typeParam
      gen  == GenerateCompletion(resp, type, outcome)
  IN  IF cap.completion.t = "throw" THEN Answer(500, FALSE, "none", FALSE, TRUE, 0, "")
      ELSE IF NoActivityDataFound(cap.completion.v)
        THEN Answer(404, FALSE, "none", FALSE, TRUE, 0, "")
      ELSE IF gen.t = "throw" THEN Answer(500, FALSE, "none", FALSE, TRUE, 0, "")
      ELSE Answer(200, TRUE, SourceOf(cap.completion.v), FALSE, TRUE, 0, gen.text)

\* insights/page.tsx lines 261-298: the answer of GET /insights to what getInsights
\* gave; "threw" stands for a rejected getInsights call (the catch of lines 288-297)
GetInsightsAnswer(got) ==
  IF got.path = "threw" THEN Answer(500, FALSE, "none", FALSE, FALSE, 0, "")
  ELSE Answer(200, TRUE,
              IF Len(got.records) > 0 /\ StartsWith(got.records[1].id, MockPrefix)
                THEN "mock" ELSE "database",
              FALSE, FALSE, 0, "")

\* screenpipe.ts lines 326-375: sendNotification. A completion here is what a block
\* did: whether it returned or threw, whether pipe.sendDesktopNotification was
\* called, and the value returned
NotificationResult(success, simulated) == [success |-> success, simulated |-> simulated]

NotifyCompletion(t, called, result) == [t |-> t, called |-> called, result |-> result]

\* lines 349-364: the catch of the send call; String(pipeError) throws for a value it
\* cannot convert
OnPipeError(error) ==
  IF error = "unstringable"
    THEN NotifyCompletion("throw", TRUE, NotificationResult(FALSE, FALSE))
  ELSE NotifyCompletion("return", TRUE, NotificationResult(TRUE, TRUE))

\* lines 328-364: the outer try block; available is what isScreenpipeAvailable gave,
\* send is "ok" or what pipe.sendDesktopNotification rejected with
NotifyTry(available, send) ==
  IF available.t = "throw"
    THEN NotifyCompletion("throw", FALSE, NotificationResult(FALSE, FALSE))
  ELSE IF ~available.v
    THEN NotifyCompletion("return", FALSE, NotificationResult(TRUE, TRUE))
  ELSE IF send = "ok"
    THEN NotifyCompletion("return", TRUE, NotificationResult(TRUE, FALSE))
  ELSE OnPipeError(send)

\* lines 366-373: the outer catch
NotifyCatch(c) ==
  IF c.t = "throw" THEN NotifyCompletion("return", c.called, NotificationResult(FALSE, TRUE))
  ELSE c

sendNotification(health, send) == NotifyCatch(NotifyTry(isScreenpipeAvailable(health), send))

\* api/notification/route.ts lines 5-43: the HTTP status and success of the answer;
\* bodyOk is false when request.json() rejects, sent is what sendNotification did
PostNotificationAnswer(bodyOk, title, message, sent) ==
  IF ~bodyOk THEN [status |-> 200, success |-> TRUE]
  ELSE IF title = "" \/ message = "" THEN [status |-> 400, success |-> FALSE]
  ELSE IF sent.t = "throw" THEN [status |-> 200, success |-> TRUE]
  ELSE [status |-> 200, success |-> TRUE]

\* a request to POST /notification and what became of it
Notification(handled, title, message, health, send, sent, answer) ==
  [handled |-> handled, title |-> title, message |-> message, health |-> health,
   send |-> send, sent |-> sent, answer |-> answer]

NoNotification ==
  Notification(FALSE, "", "", "none", "none",
               NotifyCompletion("none", FALSE, NotificationResult(FALSE, FALSE)),
               [status |-> 0, success |-> FALSE])

NotifyIdle == notification = NoNotification

\* the handler's run got as far as calling the upstream services
Contacted(answer) == answer.status \notin {429, 401, 400}

\* the activityData of a handler's run: what queryRecentActivity returned to it,
\* empty when the run did not get that far
ActivityDataOf(answer, cap) ==
  IF answer.queried /\ cap.completion.t = "return" THEN cap.completion.v ELSE <<>>

\* a handler run: the request, the rate limiter's entry for its address before the
\* call, whether a call to the capture service or to the completion endpoint failed
\* during the run, the activityData of the run, and the answer
Run(handler, ip, authorization, prior, captureDown, endpointDown, activityData, answer) ==
  [handler |-> handler, ip |-> ip, authorization |-> authorization, prior |-> prior,
   captureDown |-> captureDown, endpointDown |-> endpointDown,
   activityData |-> activityData, answer |-> answer]

NoRun == Run("none", "", <<>>, NoEntry, FALSE, FALSE, <<>>, NoAnswer)

ActivityIdle ==
  /\ nowMs = 0
  /\ ipRequests = [ip \in Ips |-> NoEntry]
  /\ accepted = [ip \in Ips |-> 0]
  /\ clients = Ips
  /\ apiSecretKey = <<>>
  /\ run = NoRun

(***************************************************************************)
(* SpecDedup: deduplicateScreenData run one loop iteration at a time.      *)
(***************************************************************************)
DedupIdle ==
  /\ dpc = "idle" /\ screenData = <<>> /\ dIdx = 1
  /\ uniqueData = <<>> /\ seenContent = {}

InitDedup ==
  /\ CaptureIdle
  /\ InsightIdle
  /\ DbIdle /\ StoreIdle /\ ActivityIdle /\ RetryIdle /\ NotifyIdle
  /\ dpc = "loop"
  /\ screenData \in SeqsUpTo(ItemPool, MaxItems)
  /\ dIdx = 1
  /\ uniqueData = <<>>
  /\ seenContent = {}

\* line 159: too short, or seen before
DedupSkip ==
  /\ dpc = "loop" /\ dIdx <= Len(screenData)
  /\ SkipItem(SimplifiedContent(screenData[dIdx]), seenContent)
  /\ dIdx' = dIdx + 1
  /\ UNCHANGED <<dpc, screenData, uniqueData, seenContent>>
  /\ UNCHANGED notDedupVars

\* lines 164-171: similar to an accepted string
DedupSimilar ==
  /\ dpc = "loop" /\ dIdx <= Len(screenData)
  /\ ~SkipItem(SimplifiedContent(screenData[dIdx]), seenContent)
  /\ IsDuplicate(SimplifiedContent(screenData[dIdx]), seenContent)
  /\ dIdx' = dIdx + 1
  /\ UNCHANGED <<dpc, screenData, uniqueData, seenContent>>
  /\ UNCHANGED notDedupVars

\* lines 173-176
DedupAccept ==
  /\ dpc = "loop" /\ dIdx <= Len(screenData)
  /\ LET st == LoopBody([unique |-> uniqueData, seen |-> seenContent], screenData[dIdx])
     IN  /\ st.unique # uniqueData
         /\ uniqueData' = st.unique
         /\ seenContent' = st.seen
  /\ dIdx' = dIdx + 1
  /\ UNCHANGED <<dpc, screenData>>
  /\ UNCHANGED notDedupVars

\* lines 138 and 179
DedupReturn ==
  /\ dpc = "loop" /\ dIdx > Len(screenData)
  /\ dpc' = "done"
  /\ UNCHANGED <<screenData, dIdx, uniqueData, seenContent>>
  /\ UNCHANGED notDedupVars

NextDedup == DedupSkip \/ DedupSimilar \/ DedupAccept \/ DedupReturn

SpecDedup == InitDedup /\ [][NextDedup]_vars

(***************************************************************************)
(* SpecCapture: one call of queryRecentActivity.  The query promise and    *)
(* the timer settle in either order; the loser of the race still settles   *)
(* later, and nothing reads it.                                            *)
(***************************************************************************)
InitCapture ==
  /\ DedupIdle /\ CaptureIdle /\ InsightIdle /\ DbIdle /\ StoreIdle /\ ActivityIdle
  /\ RetryIdle /\ NotifyIdle

Deadline == startedAt + TIMEOUT_S

\* lines 50-86: the call arms the timer, issues the query and awaits the race
QueryStart ==
  /\ qpc = "idle"
  /\ qpc' = "racing"
  /\ startedAt' = now
  /\ UNCHANGED <<now, timerFired, querySettled, qOutcome, winner, qReturn, qThrew>>
  /\ UNCHANGED notCaptureVars

\* time passes; an armed timer fires no later than its deadline
Tick ==
  /\ qpc # "idle"
  /\ now < MaxClock
  /\ timerFired \/ now < Deadline
  /\ ~(timerFired /\ querySettled)
  /\ now' = now + 1
  /\ UNCHANGED <<qpc, startedAt, timerFired, querySettled, qOutcome, winner, qReturn, qThrew>>
  /\ UNCHANGED notCaptureVars

\* the query promise settles first: lines 86-131 run on its outcome
QuerySettlesFirst ==
  /\ qpc = "racing" /\ ~querySettled /\ ~timerFired
  /\ \E s \in Settlements :
       LET c == QueryRecentActivityFrom(CatchHandler(s))
       IN  /\ qOutcome' = s
           /\ qReturn' = c.v
           /\ qThrew' = (c.t = "throw")
  /\ querySettled' = TRUE
  /\ winner' = "query"
  /\ qpc' = "done"
  /\ UNCHANGED <<now, startedAt, timerFired>>
  /\ UNCHANGED notCaptureVars

\* the timer fires first (lines 59-62 resolve null): lines 86-131 run on null
TimerFiresFirst ==
  /\ qpc = "racing" /\ ~querySettled /\ ~timerFired
  /\ now = Deadline
  /\ LET c == QueryRecentActivityFrom(FulfilledNull)
     IN  /\ qReturn' = c.v
         /\ qThrew' = (c.t = "throw")
  /\ timerFired' = TRUE
  /\ winner' = "timer"
  /\ qpc' = "done"
  /\ UNCHANGED <<now, startedAt, querySettled, qOutcome>>
  /\ UNCHANGED notCaptureVars

\* the query promise settles after the timer won: the race is already settled
QuerySettlesLate ==
  /\ qpc = "done" /\ winner = "timer" /\ ~querySettled
  /\ \E s \in Settlements : qOutcome' = s
  /\ querySettled' = TRUE
  /\ UNCHANGED <<qpc, now, startedAt, timerFired, winner, qReturn, qThrew>>
  /\ UNCHANGED notCaptureVars

\* the timer fires after the query won: the race is already settled
TimerFiresLate ==
  /\ qpc = "done" /\ winner = "query" /\ ~timerFired
  /\ now = Deadline
  /\ timerFired' = TRUE
  /\ UNCHANGED <<qpc, now, startedAt, querySettled, qOutcome, winner, qReturn, qThrew>>
  /\ UNCHANGED notCaptureVars

NextCapture ==
  \/ QueryStart
  \/ Tick
  \/ QuerySettlesFirst
  \/ TimerFiresFirst
  \/ QuerySettlesLate
  \/ TimerFiresLate

SpecCapture == InitCapture /\ [][NextCapture]_vars

(***************************************************************************)
(* SpecInsight: calls of generateInsightsFromActivity, one after another.  *)
(* Each axios.post call and each backoff wait is a step.                   *)
(***************************************************************************)
InitInsight ==
  /\ DedupIdle /\ CaptureIdle
  /\ DbIdle /\ StoreIdle /\ ActivityIdle /\ RetryIdle /\ NotifyIdle
  /\ gpc = "idle" /\ insightType = "recommendation"
  /\ apiConfigured \in BOOLEAN
  /\ retryCount = 0 /\ requests = 0 /\ delays = <<>> /\ attempts = <<>>
  /\ lastStatus = 0 /\ lastBodyNull = FALSE
  /\ aiResponse = NoResponse /\ saveOutcome = "none"
  /\ returned = "" /\ genThrew = FALSE /\ calls = 0
  /\ isConnected = FALSE /\ insights = <<>>

\* lines 769-789 and 620-622: the call, up to the first attemptRequest
GenStart ==
  /\ gpc \in {"idle", "done"}
  /\ calls < MaxCalls
  /\ \E type \in InsightTypes : insightType' = type
  /\ gpc' = "attempt"
  /\ calls' = calls + 1
  /\ retryCount' = 0 /\ requests' = 0 /\ delays' = <<>> /\ attempts' = <<>>
  /\ lastStatus' = 0 /\ lastBodyNull' = FALSE
  /\ aiResponse' = NoResponse /\ saveOutcome' = "none"
  /\ returned' = "" /\ genThrew' = FALSE
  /\ UNCHANGED <<apiConfigured, isConnected, insights>>
  /\ UNCHANGED notInsightVars

\* sendToNebiusAI resolves with resp
Resolve(resp) ==
  /\ aiResponse' = resp
  /\ gpc' = "respond"
  /\ UNCHANGED <<insightType, apiConfigured, saveOutcome, returned, genThrew, calls,
                 isConnected, insights>>
  /\ UNCHANGED notInsightVars

\* one more axios.post call, which ended as kind
Requested(kind) ==
  /\ gpc = "attempt" /\ apiConfigured
  /\ requests' = requests + 1
  /\ attempts' = Append(attempts, kind)

\* lines 626-632
AttemptMissingConfig ==
  /\ gpc = "attempt" /\ ~apiConfigured
  /\ Resolve(MissingConfigResponse)
  /\ UNCHANGED <<retryCount, requests, delays, attempts, lastStatus, lastBodyNull>>

\* lines 640-674: a 2xx response with a completion in it
AttemptSucceeds ==
  /\ Requested("ok")
  /\ \E text \in ApiTexts : Resolve(ApiResponse(text))
  /\ UNCHANGED <<retryCount, delays, lastStatus, lastBodyNull>>

\* lines 666-668 and 672: a 2xx response with no data, or data without choices: the
\* error thrown has neither response nor request (lines 719-724)
AttemptEmptyResponse ==
  /\ Requested("empty")
  /\ ~IsRetryable("empty", retryCount)
  /\ Resolve(FallbackResponse("request_setup_error", retryCount))
  /\ UNCHANGED <<retryCount, delays, lastStatus, lastBodyNull>>

\* lines 680-704 and 726-744: the server answered with an error status
AttemptResponseError ==
  /\ Requested("response")
  /\ ~IsRetryable("response", retryCount)
  /\ \E status \in ErrorStatuses, bodyNull \in BOOLEAN :
       /\ lastStatus' = status
       /\ lastBodyNull' = bodyNull
       /\ Resolve(ResponseErrorResult(status, bodyNull, retryCount))
  /\ UNCHANGED <<retryCount, delays>>

\* the ways an axios.post call fails (the catch of line 675)
FailureKinds == {"empty", "response", "network", "setup"}

\* lines 705-718: the failure is one that is retried, and a retry is left
AttemptRetried ==
  /\ \E kind \in FailureKinds :
       /\ Requested(kind)
       /\ IsRetryable(kind, retryCount)
  /\ retryCount' = retryCount + 1
  /\ delays' = Append(delays, BackoffDelay(retryCount + 1))
  /\ gpc' = "backoff"
  /\ UNCHANGED <<insightType, apiConfigured, lastStatus, lastBodyNull, aiResponse,
                 saveOutcome, returned, genThrew, calls, isConnected, insights>>
  /\ UNCHANGED notInsightVars

\* lines 705-712 and 726-744: no response was received, and no retry is left
AttemptNetworkErrorFinal ==
  /\ Requested("network")
  /\ ~IsRetryable("network", retryCount)
  /\ Resolve(FallbackResponse("network_error", retryCount))
  /\ UNCHANGED <<retryCount, delays, lastStatus, lastBodyNull>>

\* lines 719-724: the request could not be set up
AttemptSetupError ==
  /\ Requested("setup")
  /\ ~IsRetryable("setup", retryCount)
  /\ Resolve(FallbackResponse("request_setup_error", retryCount))
  /\ UNCHANGED <<retryCount, delays, lastStatus, lastBodyNull>>

\* lines 716-717: the delay has passed and attemptRequest runs again
BackoffElapsed ==
  /\ gpc = "backoff"
  /\ gpc' = "attempt"
  /\ UNCHANGED <<insightType, apiConfigured, retryCount, requests, delays, attempts,
                 lastStatus, lastBodyNull, aiResponse, saveOutcome, returned, genThrew,
                 calls, isConnected, insights>>
  /\ UNCHANGED notInsightVars

\* lines 791-815 with saveInsight (821-850) and dbConnect (db.ts 12-30): the category's
\* canned string replaces a mock result, the insight is saved, the result is returned
GenFinish ==
  /\ gpc = "respond"
  /\ \E connectOk, writeOk \in BOOLEAN :
       LET outcome == SaveInsightOutcome(isConnected, connectOk, writeOk, insightType)
           result  == ApplyCategory(aiResponse, insightType).result
       IN  /\ saveOutcome' = outcome
           /\ isConnected' = (isConnected \/ connectOk)
           /\ insights' = IF outcome = "saved"
                            THEN Append(insights, NewInsight(result, insightType))
                            ELSE insights
           /\ returned' = GenerateCompletion(aiResponse, insightType, outcome).text
           /\ genThrew' = (GenerateCompletion(aiResponse, insightType, outcome).t = "throw")
  /\ gpc' = "done"
  /\ UNCHANGED <<insightType, apiConfigured, retryCount, requests, delays, attempts,
                 lastStatus, lastBodyNull, aiResponse, calls>>
  /\ UNCHANGED notInsightVars

NextInsight ==
  \/ GenStart
  \/ AttemptMissingConfig
  \/ AttemptSucceeds
  \/ AttemptEmptyResponse
  \/ AttemptResponseError
  \/ AttemptRetried
  \/ AttemptNetworkErrorFinal
  \/ AttemptSetupError
  \/ BackoffElapsed
  \/ GenFinish

SpecInsight == InitInsight /\ [][NextInsight]_vars

\* a step of a sendToNebiusAI call in progress: an axios.post call settles (it has a
\* timeout of 30 s, line 659) or the timer of a backoff wait fires (line 716)
SendStep ==
  \/ AttemptMissingConfig
  \/ AttemptSucceeds
  \/ AttemptEmptyResponse
  \/ AttemptResponseError
  \/ AttemptRetried
  \/ AttemptNetworkErrorFinal
  \/ AttemptSetupError
  \/ BackoffElapsed

\* SpecInsight with every request and every wait of a call in progress ending
SpecInsightLive == SpecInsight /\ WF_vars(SendStep)

(***************************************************************************)
(* SpecDb: handlers that run concurrently call dbConnect (db.ts 12-30).    *)
(* A step is what one handler runs between two suspension points.          *)
(***************************************************************************)
InitDb ==
  /\ DedupIdle /\ CaptureIdle /\ InsightIdle /\ StoreIdle /\ ActivityIdle
  /\ RetryIdle /\ NotifyIdle
  /\ DbIdle

\* lines 13-16: the flag is set and the cached handle is returned
DbCallCached(h) ==
  /\ hpc[h] = "idle"
  /\ dbCalls < MaxDbCalls
  /\ isConnected
  /\ dbCalls' = dbCalls + 1
  /\ dbOutcome' = [dbOutcome EXCEPT ![h] = "cached"]
  /\ dbAttempts' = [dbAttempts EXCEPT ![h] = 0]
  /\ UNCHANGED <<hpc, connectCalls, rejects, isConnected, linkUp>>
  /\ UNCHANGED notDbVars

\* lines 13-19: the flag is not set; mongoose.connect is called and awaited
DbConnectStart(h) ==
  /\ hpc[h] = "idle"
  /\ dbCalls < MaxDbCalls
  /\ ~isConnected
  /\ dbCalls' = dbCalls + 1
  /\ connectCalls' = connectCalls + 1
  /\ dbAttempts' = [dbAttempts EXCEPT ![h] = 1]
  /\ hpc' = [hpc EXCEPT ![h] = "connecting"]
  /\ UNCHANGED <<rejects, dbOutcome, isConnected, linkUp>>
  /\ UNCHANGED notDbVars

\* lines 19-25: the connection is open
DbConnectResolves(h) ==
  /\ hpc[h] = "connecting"
  /\ isConnected' = TRUE
  /\ linkUp' = TRUE
  /\ dbOutcome' = [dbOutcome EXCEPT ![h] = "connected"]
  /\ hpc' = [hpc EXCEPT ![h] = "idle"]
  /\ UNCHANGED <<connectCalls, rejects, dbCalls, dbAttempts>>
  /\ UNCHANGED notDbVars

\* lines 19 and 26-29: mongoose.connect rejects
DbConnectRejects(h) ==
  /\ hpc[h] = "connecting"
  /\ rejects' = rejects + 1
  /\ dbOutcome' = [dbOutcome EXCEPT
       ![h] = IF ConnectCatch("MongoNetworkError").t = "throw" THEN "threw"
              ELSE "swallowed"]
  /\ hpc' = [hpc EXCEPT ![h] = "idle"]
  /\ UNCHANGED <<connectCalls, dbCalls, dbAttempts, isConnected, linkUp>>
  /\ UNCHANGED notDbVars

\* the open connection is lost; db.ts registers no handler for the connection's
\* 'error' and 'disconnected' events, so nothing in it runs
DbConnectionLost ==
  /\ linkUp
  /\ linkUp' = FALSE
  /\ UNCHANGED <<hpc, connectCalls, rejects, dbCalls, dbOutcome, dbAttempts, isConnected>>
  /\ UNCHANGED notDbVars

NextDb ==
  \/ \E h \in Handlers :
       \/ DbCallCached(h)
       \/ DbConnectStart(h)
       \/ DbConnectResolves(h)
       \/ DbConnectRejects(h)
  \/ DbConnectionLost

SpecDb == InitDb /\ [][NextDb]_vars

(***************************************************************************)
(* SpecDbRetry: handlers that run concurrently call the retrying revision  *)
(* of dbConnect (screenpipe.ts 1224-1274) while the store goes down and    *)
(* comes up. A step is what one handler runs between two suspension        *)
(* points; a connect settles as the store is at that moment.               *)
(***************************************************************************)
InitDbRetry ==
  /\ DedupIdle /\ CaptureIdle /\ InsightIdle /\ StoreIdle /\ ActivityIdle
  /\ NotifyIdle
  /\ DbIdle
  /\ dbRetryCount = 0
  /\ dbWaits = [h \in Handlers |-> <<>>]
  /\ storeUp \in BOOLEAN

\* lines 1225-1236 for handler h, entered by a call (fresh) or by line 1269
RetryEnter(h, fresh) ==
  LET entry == DbRetryEntry(isConnected, dbRetryCount)
  IN  /\ hpc' = [hpc EXCEPT ![h] = IF entry = "connect" THEN "connecting" ELSE "idle"]
      /\ connectCalls' = IF entry = "connect" THEN connectCalls + 1 ELSE connectCalls
      /\ dbAttempts' = [dbAttempts EXCEPT
           ![h] = (IF fresh THEN 0 ELSE @) + (IF entry = "connect" THEN 1 ELSE 0)]
      /\ dbOutcome' = [dbOutcome EXCEPT ![h] = IF entry = "connect" THEN @ ELSE entry]
      /\ dbWaits' = [dbWaits EXCEPT ![h] = IF fresh THEN <<>> ELSE @]

\* a handler calls dbConnect
RetryCallStart(h) ==
  /\ hpc[h] = "idle"
  /\ dbCalls < MaxRetryCalls
  /\ dbCalls' = dbCalls + 1
  /\ RetryEnter(h, TRUE)
  /\ UNCHANGED <<rejects, linkUp, dbRetryCount, storeUp, isConnected>>
  /\ UNCHANGED notRetryVars

\* lines 1236-1257: the connect resolves; the event handlers are registered
RetryConnectResolves(h) ==
  /\ hpc[h] = "connecting"
  /\ storeUp
  /\ isConnected' = TRUE
  /\ dbRetryCount' = 0
  /\ linkUp' = TRUE
  /\ dbOutcome' = [dbOutcome EXCEPT ![h] = "connected"]
  /\ hpc' = [hpc EXCEPT ![h] = "idle"]
  /\ UNCHANGED <<connectCalls, rejects, dbCalls, dbAttempts, dbWaits, storeUp>>
  /\ UNCHANGED notRetryVars

\* lines 1258-1273: the connect rejects; the call waits and calls itself, or rethrows
RetryConnectRejects(h) ==
  /\ hpc[h] = "connecting"
  /\ ~storeUp
  /\ isConnected' = FALSE
  /\ dbRetryCount' = dbRetryCount + 1
  /\ rejects' = rejects + 1
  /\ IF RetryAgain(dbRetryCount + 1)
       THEN /\ hpc' = [hpc EXCEPT ![h] = "waiting"]
            /\ dbWaits' = [dbWaits EXCEPT ![h] = Append(@, RETRY_INTERVAL_MS)]
            /\ UNCHANGED dbOutcome
       ELSE /\ hpc' = [hpc EXCEPT ![h] = "idle"]
            /\ dbOutcome' = [dbOutcome EXCEPT ![h] = "threw"]
            /\ UNCHANGED dbWaits
  /\ UNCHANGED <<connectCalls, dbCalls, dbAttempts, linkUp, storeUp>>
  /\ UNCHANGED notRetryVars

\* lines 1268-1269: the delay has passed and dbConnect calls itself
RetryWaitElapsed(h) ==
  /\ hpc[h] = "waiting"
  /\ RetryEnter(h, FALSE)
  /\ UNCHANGED <<rejects, dbCalls, linkUp, dbRetryCount, storeUp, isConnected>>
  /\ UNCHANGED notRetryVars

\* the store goes down: an open connection is lost, and the 'error' and
\* 'disconnected' handlers registered at lines 1246-1255 clear the flag
StoreGoesDown ==
  /\ storeUp
  /\ storeUp' = FALSE
  /\ linkUp' = FALSE
  /\ isConnected' = IF linkUp THEN FALSE ELSE isConnected
  /\ UNCHANGED <<hpc, connectCalls, rejects, dbCalls, dbOutcome, dbAttempts,
                 dbRetryCount, dbWaits>>
  /\ UNCHANGED notRetryVars

\* the store accepts connections again
StoreComesUp ==
  /\ ~storeUp
  /\ storeUp' = TRUE
  /\ UNCHANGED <<hpc, connectCalls, rejects, dbCalls, dbOutcome, dbAttempts, linkUp,
                 dbRetryCount, dbWaits, isConnected>>
  /\ UNCHANGED notRetryVars

NextDbRetry ==
  \/ \E h \in Handlers :
       \/ RetryCallStart(h)
       \/ RetryConnectResolves(h)
       \/ RetryConnectRejects(h)
       \/ RetryWaitElapsed(h)
  \/ StoreGoesDown
  \/ StoreComesUp

SpecDbRetry == InitDbRetry /\ [][NextDbRetry]_vars

(***************************************************************************)
(* SpecStore: saveInsight, getInsights and PATCH /insights over the        *)
(* AIInsight collection, one call after another.                           *)
(***************************************************************************)
InitStore ==
  /\ DedupIdle /\ CaptureIdle /\ InsightIdle /\ DbIdle /\ ActivityIdle
  /\ RetryIdle /\ NotifyIdle
  /\ StoreIdle

\* the status and category filters, limits and offsets of getInsights in the model
StatusFilters == {"", "new", "viewed"}

TypeFilters == {"", "productivity", "toString"}

ListOptions ==
  { Options(st, ty, TRUE, l, 0) : st \in StatusFilters, ty \in TypeFilters, l \in {0, 1, 5} }
    \cup {Options(st, "", TRUE, 1, 1) : st \in StatusFilters}
    \cup {Options(st, "", FALSE, 0, 0) : st \in StatusFilters}

\* the bodies of PATCH requests in the model: <<>> and '' stand for a missing field
PatchIds == {<<>>, MockId(0), DocId(1), DocId(2), DocId(9)}

PatchStatuses == {"", "new", "viewed", "implemented", "dismissed", "archived"}

\* the store during one call: whether a connect and the operation after it succeed
StoreEnvs ==
  { [connectOk |-> TRUE, opOk |-> TRUE],
    [connectOk |-> FALSE, opOk |-> TRUE],
    [connectOk |-> TRUE, opOk |-> FALSE] }

\* screenpipe.ts lines 821-850: saveInsight with a text and a category
SaveInsight ==
  /\ Len(insights) < MaxDocs
  /\ \E type \in {"productivity", "summary"}, env \in StoreEnvs :
       LET outcome == SaveInsightOutcome(isConnected, env.connectOk, env.opOk, type)
       IN  /\ isConnected' = (isConnected \/ env.connectOk)
           /\ insights' = IF outcome = "saved"
                            THEN Append(insights, NewInsight(Lookup(DefaultType), type))
                            ELSE insights
  /\ listOptions' = NoOptions /\ listPath' = "none" /\ listResult' = <<>>
  /\ patchBody' = [insightId |-> <<>>, status |-> ""] /\ patchStatus' = 0
  /\ UNCHANGED notStoreVars

\* screenpipe.ts lines 855-915, called by GET /insights (insights/page.tsx 261-298)
GetInsights ==
  /\ \E options \in ListOptions, env \in StoreEnvs :
       LET readOk == (isConnected \/ env.connectOk) /\ env.opOk
           got    == getInsights(insights, options, readOk)
       IN  /\ isConnected' = (isConnected \/ env.connectOk)
           /\ listOptions' = options
           /\ listPath' = got.path
           /\ listResult' = got.records
  /\ patchBody' = [insightId |-> <<>>, status |-> ""] /\ patchStatus' = 0
  /\ UNCHANGED insights
  /\ UNCHANGED notStoreVars

\* insights/page.tsx lines 347-386 with updateInsightStatus (screenpipe.ts 920-936)
PatchInsight ==
  /\ \E insightId \in PatchIds, status \in PatchStatuses, env \in StoreEnvs :
       LET missing == Len(insightId) = 0 \/ status = ""
           mock    == StartsWith(insightId, MockPrefix)
           storeOk == (isConnected \/ env.connectOk) /\ env.opOk
           updated == UpdateResult(insights, insightId, status, storeOk)
       IN  /\ patchBody' = [insightId |-> insightId, status |-> status]
           /\ patchStatus' = PatchStatus(insightId, status, updated)
           /\ insights' = IF missing THEN insights
                            ELSE UpdatedDocs(insights, insightId, status, storeOk)
           /\ isConnected' = IF missing \/ mock THEN isConnected
                               ELSE (isConnected \/ env.connectOk)
  /\ listOptions' = NoOptions /\ listPath' = "none" /\ listResult' = <<>>
  /\ UNCHANGED notStoreVars

NextStore ==
  \/ SaveInsight
  \/ GetInsights
  \/ PatchInsight

SpecStore == InitStore /\ [][NextStore]_vars

(***************************************************************************)
(* The handlers of /activity (part_004) and POST /insights as actions. A   *)
(* handler runs from request to answer in one step; its inputs and the     *)
(* state of the services it calls are drawn from a pool of requests.       *)
(***************************************************************************)
\* part_004 lines 13-36 as the handlers call it: the Map after the call
RateLimited(ip) ==
  /\ ip \in clients
  /\ checkRateLimit(ipRequests[ip], nowMs).entry.count <= MaxCount
  /\ ipRequests' = [ipRequests EXCEPT ![ip] = checkRateLimit(ipRequests[ip], nowMs).entry]
  /\ accepted' = [accepted EXCEPT ![ip] = AcceptedAfter(ipRequests[ip], nowMs, accepted[ip])]

\* part_004 lines 39-102
GetActivityFrom(pool) ==
  /\ \E fwd \in ForwardedFor, req \in pool :
       LET ip  == ClientIp(fwd)
           ans == GetActivityAnswer(checkRateLimit(ipRequests[ip], nowMs).allowed,
                                    req.minutes, req.cap)
       IN  /\ RateLimited(ip)
           /\ run' = Run("GET /activity", ip, <<>>, ipRequests[ip],
                         Contacted(ans) /\ req.cap.down, FALSE,
                         ActivityDataOf(ans, req.cap), ans)
  /\ UNCHANGED <<nowMs, clients, apiSecretKey, isConnected, insights>>
  /\ UNCHANGED notActivityVars

\* part_004 lines 105-206 with saveScreenActivity (screenpipe.ts 204-245)
PostActivityFrom(pool) ==
  /\ \E fwd \in ForwardedFor, req \in pool :
       LET ip  == ClientIp(fwd)
           ans == PostActivityAnswer(checkRateLimit(ipRequests[ip], nowMs).allowed,
                                     req.authorization, apiSecretKey, req.minutes,
                                     req.cap, (isConnected \/ req.env.connectOk) /\ req.env.opOk)
       IN  /\ RateLimited(ip)
           /\ run' = Run("POST /activity", ip, req.authorization, ipRequests[ip],
                         Contacted(ans) /\ req.cap.down, FALSE,
                         ActivityDataOf(ans, req.cap), ans)
           /\ isConnected' = IF ans.status = 200 THEN (isConnected \/ req.env.connectOk)
                               ELSE isConnected
  /\ UNCHANGED <<nowMs, clients, apiSecretKey, insights>>
  /\ UNCHANGED notActivityVars

\* the capture service down, and the store up
CaptureRunsDown == {c \in CaptureRuns : c.down}

StoreUp == [connectOk |-> TRUE, opOk |-> TRUE]

(***************************************************************************)
(* SpecActivity: bursts of requests to GET and POST /activity from two     *)
(* client addresses while the clock advances.                              *)
(***************************************************************************)
InitActivity ==
  /\ DedupIdle /\ CaptureIdle /\ InsightIdle /\ DbIdle /\ StoreIdle
  /\ RetryIdle /\ NotifyIdle
  /\ nowMs = 0
  /\ ipRequests = [ip \in Ips |-> NoEntry]
  /\ accepted = [ip \in Ips |-> 0]
  /\ clients = Ips
  /\ apiSecretKey = SecretKey
  /\ run = NoRun

\* time passes
ClockAdvance ==
  /\ nowMs < MaxTicks * TickMs
  /\ nowMs' = nowMs + TickMs
  /\ UNCHANGED <<ipRequests, accepted, clients, apiSecretKey, run, isConnected, insights>>
  /\ UNCHANGED notActivityVars

\* the requests of a burst: a valid and an invalid one to each handler
BurstGetRequests ==
  {[minutes |-> m, cap |-> c] : m \in {<<>>, <<"a", "b", "c">>}, c \in CaptureRunsDown}

BurstPostRequests ==
  { [authorization |-> a, minutes |-> <<>>, cap |-> c, env |-> StoreUp] :
      a \in {BearerPrefix \o SecretKey, <<>>}, c \in CaptureRunsDown }

GetActivityBurst == GetActivityFrom(BurstGetRequests)

PostActivityBurst == PostActivityFrom(BurstPostRequests)

NextActivity ==
  \/ ClockAdvance
  \/ GetActivityBurst
  \/ PostActivityBurst

SpecActivity == InitActivity /\ [][NextActivity]_vars

(***************************************************************************)
(* SpecAuth: requests to POST /activity from one client address, with      *)
(* every authorization header of the model, the secret set or unset.       *)
(***************************************************************************)
InitAuth ==
  /\ DedupIdle /\ CaptureIdle /\ InsightIdle /\ DbIdle /\ StoreIdle
  /\ RetryIdle /\ NotifyIdle
  /\ nowMs = 0
  /\ ipRequests = [ip \in Ips |-> NoEntry]
  /\ accepted = [ip \in Ips |-> 0]
  /\ clients = {ClientIp("")}
  /\ apiSecretKey \in {<<>>, SecretKey}
  /\ run = NoRun

\* the requests to POST /activity in the model, with the state of the capture
\* service and of the store during each
PostActivityRequests ==
  { [authorization |-> a, minutes |-> m, cap |-> c, env |-> e] :
      a \in AuthHeaders, m \in {<<>>, <<"6", "1">>}, c \in CaptureRuns, e \in StoreEnvs }

PostActivity == PostActivityFrom(PostActivityRequests)

NextAuth == PostActivity

SpecAuth == InitAuth /\ [][NextAuth]_vars

(***************************************************************************)
(* SpecOutage: requests to GET /activity (part_004) and POST /insights     *)
(* (insights/page.tsx 301-344) from one client address, with the capture   *)
(* service, the completion endpoint and the store up or down during each.  *)
(***************************************************************************)
InitOutage ==
  /\ DedupIdle /\ CaptureIdle /\ InsightIdle /\ DbIdle /\ StoreIdle
  /\ RetryIdle /\ NotifyIdle
  /\ nowMs = 0
  /\ ipRequests = [ip \in Ips |-> NoEntry]
  /\ accepted = [ip \in Ips |-> 0]
  /\ clients = {ClientIp("")}
  /\ apiSecretKey = SecretKey
  /\ run = NoRun

\* the requests to GET /activity in the model, with the state of the capture service
GetActivityRequests ==
  {[minutes |-> m, cap |-> c] : m \in MinutesParams, c \in CaptureRuns}

GetActivity == GetActivityFrom(GetActivityRequests)

\* insights/page.tsx lines 301-344 with generateInsightsFromActivity, sendToNebiusAI
\* and saveInsight (screenpipe.ts 620-850)
PostInsights ==
  /\ Len(insights) < MaxGenerated
  /\ \E typeParam \in TypeParams, cap \in CaptureRuns, ep \in EndpointRuns,
        env \in StoreEnvs :
       LET type    == IF typeParam = "" THEN DefaultType ELSE typeParam
           resp    == IF apiConfigured THEN ep.response ELSE sendToNebiusAI(FALSE, <<>>)
           outcome == SaveInsightOutcome(isConnected, env.connectOk, env.opOk, type)
           ans     == PostInsightsAnswer(typeParam, cap, resp, outcome)
           reached == cap.completion.t = "return" /\ ~NoActivityDataFound(cap.completion.v)
       IN  /\ run' = Run("POST /insights", "", <<>>, NoEntry, cap.down,
                         reached /\ apiConfigured /\ ep.down,
                         ActivityDataOf(ans, cap), ans)
           /\ insights' = IF reached /\ outcome = "saved"
                            THEN Append(insights,
                                        NewInsight(ApplyCategory(resp, type).result, type))
                            ELSE insights
           /\ isConnected' = IF reached THEN (isConnected \/ env.connectOk) ELSE isConnected
  /\ UNCHANGED <<nowMs, ipRequests, accepted, clients, apiSecretKey>>
  /\ UNCHANGED notActivityVars

NextOutage ==
  \/ GetActivity
  \/ PostInsights

SpecOutage == InitOutage /\ [][NextOutage]_vars

(***************************************************************************)
(* SpecNotify: requests to POST /notification (api/notification/route.ts)  *)
(* and to GET /activity from one client address; both ask                  *)
(* isScreenpipeAvailable first.                                            *)
(***************************************************************************)
InitNotify ==
  /\ DedupIdle /\ CaptureIdle /\ InsightIdle /\ DbIdle /\ StoreIdle
  /\ RetryIdle /\ NotifyIdle
  /\ nowMs = 0
  /\ ipRequests = [ip \in Ips |-> NoEntry]
  /\ accepted = [ip \in Ips |-> 0]
  /\ clients = {ClientIp("")}
  /\ apiSecretKey = SecretKey
  /\ run = NoRun

\* the titles and messages of the requests in the model, '' when the field is missing
Titles == {"", "Break", "Focus"}

Messages == {"", "Stand up"}

\* how the health query ends, and how the send call ends
HealthOutcomes == {"fulfilled", "rejected", "pending"}

SendOutcomes == {"ok"} \cup ErrorKinds

\* route.ts lines 5-43 with sendNotification (screenpipe.ts 326-375)
PostNotification ==
  /\ \E bodyOk \in BOOLEAN, title \in Titles, message \in Messages,
        health \in HealthOutcomes, send \in SendOutcomes :
       LET reached == bodyOk /\ title # "" /\ message # ""
           sent    == IF reached THEN sendNotification(health, send)
                      ELSE NoNotification.sent
       IN  notification' =
             Notification(TRUE,
                          IF bodyOk THEN title ELSE "",
                          IF bodyOk THEN message ELSE "",
                          IF reached THEN health ELSE "none",
                          IF reached /\ sent.called THEN send ELSE "none",
                          sent,
                          PostNotificationAnswer(bodyOk, title, message, sent))
  /\ UNCHANGED notNotifyVars

NextNotify ==
  \/ PostNotification
  \/ GetActivityBurst

SpecNotify == InitNotify /\ [][NextNotify]_vars

(***************************************************************************)
(* Claims about deduplicateScreenData.                                     *)
(***************************************************************************)
\* the normalized text the claims speak of: the item's text, lowercased and trimmed
Normalized(item) == Trim(ToLowerCase(TextContent(item)))

RECURSIVE IsSubsequence(_, _)
IsSubsequence(s, t) ==
  IF s = <<>> THEN TRUE
  ELSE IF t = <<>> THEN FALSE
  ELSE IF Head(s) = Head(t) THEN IsSubsequence(Tail(s), Tail(t))
  ELSE IsSubsequence(s, Tail(t))

\* C1: at every point of the loop, and so on return, the accepted items are a
\* subsequence of the items visited so far, in their original order, and no two
\* accepted items have the same normalized text; the value the function returns
\* step by step is the value of the function computed at once.
C1_SubsequenceNoExactDuplicates ==
  /\ dpc \in {"loop", "done"} =>
       /\ IsSubsequence(uniqueData, SubSeq(screenData, 1, dIdx - 1))
       /\ \A i, j \in 1..Len(uniqueData) :
            i # j => Normalized(uniqueData[i]) # Normalized(uniqueData[j])
  /\ dpc = "done" => uniqueData = deduplicateScreenData(screenData)

\* C1 witness: a finished run that was given two items with the same normalized text
\* and kept two items
C1_Witness ==
  /\ dpc = "done"
  /\ Len(uniqueData) >= 2
  /\ \E i, j \in 1..Len(screenData) :
       /\ i < j
       /\ screenData[i] # screenData[j]
       /\ Normalized(screenData[i]) = Normalized(screenData[j])
       /\ Len(Normalized(screenData[i])) >= MIN_CONTENT_LENGTH

\* C2: no accepted item has a normalized text shorter than 10 characters
C2_NoShortOutput ==
  dpc \in {"loop", "done"} =>
    \A i \in 1..Len(uniqueData) : Len(Normalized(uniqueData[i])) >= MIN_CONTENT_LENGTH

\* C2 witness: a finished run whose input held an item with no text at all, an item
\* whose text is short only after trimming, and an item that was kept
C2_Witness ==
  /\ dpc = "done"
  /\ uniqueData # <<>>
  /\ \E i \in 1..Len(screenData) : Normalized(screenData[i]) = <<>>
  /\ \E i \in 1..Len(screenData) :
       /\ Len(TextContent(screenData[i])) >= MIN_CONTENT_LENGTH
       /\ Len(Normalized(screenData[i])) < MIN_CONTENT_LENGTH

(***************************************************************************)
(* Claims about queryRecentActivity.                                       *)
(***************************************************************************)
\* the capture query failed: it rejected, or resolved with no data field
QueryFailed ==
  \/ qOutcome.state = "rejected"
  \/ qOutcome.state = "fulfilled" /\ ~qOutcome.isNull /\ ~qOutcome.hasData

\* C3: queryRecentActivity never rejects, and when the capture query rejected (with
\* any error), resolved without a data field, or lost the race to the timer, the
\* value returned is MOCK_SCREEN_DATA.
C3_NeverThrowsFailureGivesMock ==
  qpc = "done" =>
    /\ ~qThrew
    /\ (winner = "timer" \/ (winner = "query" /\ QueryFailed))
         => qReturn = MOCK_SCREEN_DATA

\* C3 witness: the query won the race by rejecting with an error that is not the
\* browser-compatibility one, and the call has returned
C3_Witness ==
  /\ qpc = "done" /\ winner = "query"
  /\ qOutcome.state = "rejected" /\ qOutcome.err = "ECONNREFUSED"

\* C4: when the timer fires 15 seconds after the call with the query still pending,
\* the call returns exactly the two-item MOCK_SCREEN_DATA.
C4_TimeoutGivesMock ==
  (qpc = "done" /\ winner = "timer") =>
    /\ now >= startedAt + TIMEOUT_S
    /\ ~qThrew
    /\ qReturn = MOCK_SCREEN_DATA
    /\ Len(qReturn) = 2

\* C4 witness: the timer won while the query was still pending
C4_Witness ==
  qpc = "done" /\ winner = "timer" /\ ~querySettled /\ now = startedAt + TIMEOUT_S

\* the query resolved, before the timer, with no data field or with zero items
ResolvedEmpty ==
  /\ winner = "query"
  /\ qOutcome.state = "fulfilled" /\ ~qOutcome.isNull
  /\ (~qOutcome.hasData \/ Len(qOutcome.data) = 0)

\* C5: a query that resolves before the timer with an empty page gives the value a
\* timeout gives (the value of the function on the timer's null).
C5_EmptyPageSameAsTimeout ==
  (qpc = "done" /\ ResolvedEmpty) =>
    /\ ~qThrew
    /\ qReturn = QueryRecentActivityFrom(FulfilledNull).v
    /\ qReturn = MOCK_SCREEN_DATA

\* C5 witness: the query resolved with a data field holding zero items before the
\* deadline
C5_Witness ==
  /\ qpc = "done" /\ ResolvedEmpty
  /\ qOutcome.hasData /\ now < startedAt + TIMEOUT_S

\* C6: whatever the capture query did, queryRecentActivity returns a non-empty
\* sequence, so the handlers' 'No activity data found' branch is not taken.
C6_ReturnNeverEmpty ==
  qpc = "done" => (Len(qReturn) > 0 /\ ~NoActivityDataFound(qReturn))

(***************************************************************************)
(* Claims about sendToNebiusAI and generateInsightsFromActivity.           *)
(***************************************************************************)
\* every axios.post call of the current sendToNebiusAI call ended as kind
AllAttempts(kind) ==
  /\ requests > 0
  /\ \A i \in 1..Len(attempts) : attempts[i] = kind

\* the delays the retry policy states: 1 s, 2 s, 4 s
StatedDelays == <<1000, 2000, 4000>>

\* C7: while every call of the completion endpoint fails at network level, each
\* retry is preceded by its wait and the waits are 1 s, 2 s, 4 s in that order; the
\* call ends after exactly 3 retries (4 requests), and generateInsightsFromActivity
\* then returns the canned string of the requested category (for a category that
\* has one).
C7_ThreeRetriesThenCanned ==
  AllAttempts("network") =>
    /\ retryCount <= 3
    /\ delays = SubSeq(StatedDelays, 1, retryCount)
    /\ gpc = "backoff" => requests = retryCount
    /\ gpc = "attempt" => requests = retryCount
    /\ gpc \in {"respond", "done"} =>
         /\ requests = 4
         /\ retryCount = 3
         /\ aiResponse.source = "mock"
         /\ aiResponse.hasRetryAttempts /\ aiResponse.retryAttempts = 3
    /\ (gpc = "done" /\ insightType \in OwnKeys) => returned = MOCK_INSIGHTS[insightType]

\* C7 witness: a call for a category other than recommendation has returned after
\* four network failures
C7_Witness ==
  /\ gpc = "done"
  /\ attempts = <<"network", "network", "network", "network">>
  /\ insightType = "productivity"

\* C8 as stated: whenever a call of the endpoint fails with a response,
\* sendToNebiusAI has made exactly one request and falls back with retryAttempts = 0
\* (read in the claim's favour: no retry was made, and the metadata says 0 when it
\* carries the field).
C8_Original ==
  \A i \in 1..Len(attempts) :
    attempts[i] = "response" =>
      /\ requests = 1
      /\ gpc \in {"respond", "done"}
      /\ aiResponse.source = "mock"
      /\ retryCount = 0
      /\ aiResponse.hasRetryAttempts => aiResponse.retryAttempts = 0

\* C8 as amended: a failure that carries a response is never retried: it is the
\* last request sendToNebiusAI makes and the fallback follows at once, no wait
\* being added; the fallback's retryAttempts is the number of network-error retries
\* made before it (so one request and retryAttempts = 0 when it is the first
\* attempt's outcome), and is missing only for a 400 response with a null body.
C8_ResponseFailureNotRetried ==
  \A i \in 1..Len(attempts) :
    attempts[i] = "response" =>
      /\ i = Len(attempts)
      /\ requests = i
      /\ gpc \in {"respond", "done"}
      /\ aiResponse.source = "mock"
      /\ retryCount = i - 1
      /\ Len(delays) = i - 1
      /\ aiResponse.hasRetryAttempts <=> ~(lastStatus = 400 /\ lastBodyNull)
      /\ aiResponse.hasRetryAttempts => aiResponse.retryAttempts = i - 1
      /\ i = 1 => (requests = 1 /\ aiResponse.retryAttempts = 0)

\* C8 witness: a 401 on the first attempt, and a 500 after one network-error retry
C8_Witness ==
  \/ attempts = <<"response">> /\ lastStatus = 401 /\ gpc = "done"
  \/ attempts = <<"network", "response">> /\ lastStatus = 500 /\ gpc = "done"

\* the canned string the claims state for a category
CannedFor(type) ==
  IF type \in {"productivity", "automation", "recommendation", "reminder"}
    THEN MOCK_INSIGHTS[type]
    ELSE MOCK_INSIGHTS.recommendation

\* C9: whenever the completion call ended in fallback, generateInsightsFromActivity
\* returns the canned string of the requested category, and the recommendation
\* string for any other category value.
C9_FallbackReturnsCanned ==
  (gpc = "done" /\ aiResponse.source = "mock") =>
    /\ ~genThrew
    /\ returned = CannedFor(insightType)

\* persisting the insight failed
SaveFailed == saveOutcome \in {"connectFailed", "invalid", "writeFailed"}

\* C10: when persisting the insight fails, generateInsightsFromActivity does not
\* throw and returns the text it returns when persistence succeeds.
C10_SaveFailureSameText ==
  (gpc = "done" /\ SaveFailed) =>
    /\ ~genThrew
    /\ returned = GenerateCompletion(aiResponse, insightType, "saved").text
    /\ returned = ApplyCategory(aiResponse, insightType).result

\* C10 witness: the endpoint answered with a completion, the store connection or
\* the write failed, and the call has returned
C10_Witness ==
  /\ gpc = "done"
  /\ aiResponse.source = "api"
  /\ saveOutcome \in {"connectFailed", "writeFailed"}

(***************************************************************************)
(* Claims about dbConnect (db.ts).                                         *)
(***************************************************************************)
\* C11: against a reachable store (no connect has rejected), however the dbConnect
\* calls of concurrent handlers interleave, mongoose.connect is called at most once:
\* the first caller connects, every other caller gets the cached handle.
C11_ConnectInvokedOnce == rejects = 0 => connectCalls <= 1

\* the step in which the connect that handler h awaits rejects
ConnectFailsFor(h) ==
  hpc[h] = "connecting" /\ hpc'[h] = "idle" /\ rejects' = rejects + 1

\* C12: a dbConnect call whose connect fails made exactly one attempt, rethrows, and
\* does not set isConnected (which is false when every connect so far has failed);
\* a dbConnect call that starts while isConnected is false calls mongoose.connect again.
C12_FailedConnectRethrows ==
  [][/\ \A h \in Handlers :
          ConnectFailsFor(h) =>
            /\ dbOutcome'[h] = "threw"
            /\ dbAttempts'[h] = 1
            /\ connectCalls' = connectCalls
            /\ isConnected' = isConnected
            /\ (rejects' = connectCalls' => ~isConnected')
      /\ (dbCalls' = dbCalls + 1 /\ ~isConnected => connectCalls' = connectCalls + 1)
    ]_vars

\* a handler whose last dbConnect call threw is connecting again
C12_Witness ==
  \E h \in Handlers :
    /\ dbOutcome[h] = "threw" /\ hpc[h] = "connecting"
    /\ ~isConnected /\ rejects >= 1 /\ connectCalls = rejects + 1

(***************************************************************************)
(* Claims about the AIInsight collection.                                  *)
(***************************************************************************)
\* the four categories and the four statuses the claims name
Categories == {"productivity", "automation", "recommendation", "reminder"}

Statuses == {"new", "viewed", "implemented", "dismissed"}

\* the limit a call asked for, 10 when it gave none
RequestedLimit == IF listOptions.hasLimit THEN listOptions.limit ELSE 10

CannedAdmitted ==
  /\ listOptions.status \in {"", "new"}
  /\ listOptions.insightType \in {""} \cup Categories
  /\ RequestedLimit >= 1

MatchesFilters(rec) ==
  /\ (listOptions.status # "" => rec.status = listOptions.status)
  /\ (listOptions.insightType # "" => rec.insightType = listOptions.insightType)

\* C14: every record getInsights returns matches the status and category filters of
\* the call and the list has at most limit records, on the store path, the
\* empty-store path and the read-failure path; status=new, type=productivity, limit=5
\* on an empty store gives exactly the canned productivity record.
C14_ResultMatchesFiltersAndLimit ==
  /\ listPath # "none" =>
       /\ \A i \in 1..Len(listResult) : MatchesFilters(listResult[i])
       /\ Len(listResult) <= RequestedLimit
  /\ ( /\ listPath = "empty"
       /\ listOptions = Options("new", "productivity", TRUE, 5, 0)
       => listResult = <<[id |-> MockId(0), insightType |-> "productivity",
                          status |-> "new"]>> )

\* the transitions of the status state machine
AllowedTransitions ==
  { <<"new", "viewed">>, <<"new", "implemented">>, <<"new", "dismissed">>,
    <<"viewed", "implemented">>, <<"viewed", "dismissed">> }

\* C15: a persisted insight's status changes only along new -> viewed,
\* new -> implemented/dismissed, viewed -> implemented/dismissed (read here for
\* changes between two of the four statuses): never back to new, never away from
\* implemented or dismissed.
C15_StatusFollowsStateMachine ==
  [][\A i \in 1..Len(insights) :
       \/ insights'[i].status = insights[i].status
       \/ insights[i].status \notin Statuses
       \/ insights'[i].status \notin Statuses
       \/ <<insights[i].status, insights'[i].status>> \in AllowedTransitions]_vars

\* C16: every persisted insight has one of the four statuses and one of the four
\* categories, whatever strings the callers supplied.
C16_PersistedStatusAndCategory ==
  \A i \in 1..Len(insights) :
    insights[i].status \in Statuses /\ insights[i].insightType \in Categories

(***************************************************************************)
(* Claims about the /activity route and POST /insights.                    *)
(***************************************************************************)
\* the handlers behind the rate limiter
ActivityHandlers == {"GET /activity", "POST /activity"}

\* the smaller of two numbers
Smaller(a, b) == IF a < b THEN a ELSE b

\* C17: of the GET and POST /activity requests of one client address in one window,
\* which share one counter, at most 10 are accepted: the 11th and every later one is
\* answered 429, and runs neither the capture query nor saveScreenActivity.
C17_AtMostTenPerWindow ==
  /\ \A ip \in Ips :
       /\ accepted[ip] <= 10
       /\ ipRequests[ip].present => accepted[ip] = Smaller(ipRequests[ip].count, 10)
  /\ run.handler \in ActivityHandlers =>
       /\ (ipRequests[run.ip].count > 10 <=> run.answer.status = 429)
       /\ (run.answer.status = 429 => ~run.answer.queried /\ run.answer.saved = 0)

\* the twelfth request of a window, a POST with the right token after ten accepted
\* requests, is answered 429
C17_Witness ==
  /\ run.handler = "POST /activity"
  /\ run.authorization = BearerPrefix \o apiSecretKey
  /\ run.answer.status = 429
  /\ ipRequests[run.ip].count = 12
  /\ accepted[run.ip] = 10

\* C18: the first request of an address after the reset time of its window has passed
\* is accepted, whatever the count of the old window, and leaves the address a new
\* window with count 1 and reset time now + 60 s.
C18_FirstRequestAfterResetAccepted ==
  [][\A ip \in Ips :
       ( /\ ipRequests[ip].present
         /\ nowMs > ipRequests[ip].resetTime
         /\ ipRequests'[ip] # ipRequests[ip] )
       => /\ ipRequests'[ip] = [present |-> TRUE, count |-> 1, resetTime |-> nowMs + 60000]
          /\ accepted'[ip] = 1
          /\ run'.ip = ip
          /\ run'.answer.status # 429]_vars

\* a request is answered 200 although the window before it had rejected requests
C18_Witness ==
  /\ run.handler \in ActivityHandlers
  /\ run.prior.present /\ run.prior.count > 10
  /\ nowMs > run.prior.resetTime
  /\ ipRequests[run.ip] = [present |-> TRUE, count |-> 1, resetTime |-> nowMs + 60000]
  /\ run.answer.status = 200

\* the header names the Bearer scheme and a token other than secret
DifferentToken(authHeader, secret) ==
  /\ Len(authHeader) >= 7
  /\ SubSeq(authHeader, 1, 7) = <<"B", "e", "a", "r", "e", "r", " ">>
  /\ SubSeq(authHeader, 8, Len(authHeader)) # secret

\* C19: POST /activity runs the capture query and saveScreenActivity only for a
\* request whose Authorization header is 'Bearer ' followed by the configured secret;
\* a request within the rate limit with no header, with the secret unset or with a
\* different token is answered 401 and nothing is saved.
C19_PostActivityNeedsBearerSecret ==
  run.handler = "POST /activity" =>
    /\ (run.answer.queried \/ run.answer.saved > 0) =>
         /\ Len(apiSecretKey) > 0
         /\ run.authorization = <<"B", "e", "a", "r", "e", "r", " ">> \o apiSecretKey
    /\ ( /\ run.answer.status # 429
         /\ \/ Len(run.authorization) = 0
            \/ Len(apiSecretKey) = 0
            \/ DifferentToken(run.authorization, apiSecretKey) )
       => run.answer.status = 401 /\ ~run.answer.queried /\ run.answer.saved = 0

\* C20: a GET /activity or POST /insights request with valid parameters, within the
\* rate limit, during which the capture service or the completion endpoint was
\* unreachable or erroring, is answered 200 with success = true: with the synthetic
\* activity data when the capture service was down, and with an insight text.
C20_OutageStillSucceeds ==
  ( /\ run.handler \in {"GET /activity", "POST /insights"}
    /\ (run.captureDown \/ run.endpointDown) )
  => /\ run.answer.status = 200
     /\ run.answer.success
     /\ (run.captureDown => run.answer.source = "mock")
     /\ (run.handler = "POST /insights" => run.answer.text # "")

\* POST /insights answered while both services were down
C20_Witness ==
  /\ run.handler = "POST /insights"
  /\ run.captureDown /\ run.endpointDown
  /\ run.answer.status = 200 /\ run.answer.success

(***************************************************************************)
(* Claims about error handling on the read and write paths, and about      *)
(* sendNotification.                                                       *)
(***************************************************************************)
\* C21 (read path): when dbConnect or the find fails during getInsights, the call
\* gives the caller an error and GET /insights answers 500 with success = false.
\* (The write path of the claim, POST /activity answering with the captured data
\* when saveScreenActivity fails, is PostActivityAnswer's last branch.)
C21_ReadErrorPropagated ==
  listPath = "failed" =>
    /\ GetInsightsAnswer([path |-> listPath, records |-> listResult]).status = 500
    /\ ~GetInsightsAnswer([path |-> listPath, records |-> listResult]).success

\* the send call failed: it was made and rejected
SendFailed == notification.sent.called /\ notification.send # "ok"

\* C22: sendNotification never throws; it calls pipe.sendDesktopNotification only
\* after isScreenpipeAvailable gave true; and it returns success = true with
\* simulated = true both when the service is unavailable and when the send call fails.
C22_NotificationBestEffort ==
  notification.sent.t # "none" =>
    /\ notification.sent.t = "return"
    /\ (notification.sent.called => notification.health = "fulfilled")
    /\ (notification.health # "fulfilled" \/ SendFailed =>
          notification.sent.result = [success |-> TRUE, simulated |-> TRUE])

(***************************************************************************)
(* Claims about the retrying revision of dbConnect and about reconnecting. *)
(***************************************************************************)
\* the delay of 5000 ms, n times
Waits5s(n) == [i \in 1..n |-> 5000]

\* C25: the first dbConnect call of a process, while no connect of it has resolved,
\* makes at most 3 connect attempts and waits 5000 ms after each of the first two
\* rejections; it ends only at the third rejection, by throwing to its caller.
C25_ThreeAttemptsThenThrow ==
  (dbCalls = 1 /\ \A g \in Handlers : dbOutcome[g] # "connected") =>
    \A h \in Handlers :
      dbAttempts[h] >= 1 =>
        /\ dbAttempts[h] <= 3 /\ connectCalls = dbAttempts[h]
        /\ (hpc[h] = "connecting" =>
              rejects = dbAttempts[h] - 1 /\ dbWaits[h] = Waits5s(dbAttempts[h] - 1))
        /\ (hpc[h] = "waiting" =>
              /\ rejects = dbAttempts[h] /\ dbAttempts[h] < 3
              /\ dbWaits[h] = Waits5s(dbAttempts[h]))
        /\ (hpc[h] = "idle" =>
              /\ dbOutcome[h] = "threw"
              /\ dbAttempts[h] = 3 /\ rejects = 3
              /\ dbWaits[h] = <<5000, 5000>>)

\* the first call of the process threw after three rejected connects
C25_Witness ==
  /\ dbCalls = 1 /\ rejects = 3 /\ ~storeUp
  /\ \E h \in Handlers : dbOutcome[h] = "threw" /\ dbWaits[h] = <<5000, 5000>>

\* C27: a dbConnect call that starts after the established connection was lost
\* (no connection is open) calls mongoose.connect instead of returning the cached
\* handle.
C27_ReconnectsAfterLoss ==
  [][(dbCalls' = dbCalls + 1 /\ ~linkUp) => connectCalls' = connectCalls + 1]_vars

Candidate == Normalized(screenData[dIdx])

\* the shorter and the longer of two strings (the second when the lengths are equal)
ShorterOf(a, b) == IF Len(a) < Len(b) THEN a ELSE b

LongerOf(a, b) == IF Len(a) < Len(b) THEN b ELSE a

\* some word of more than 4 characters of the shorter string is in the longer one
SharesLongWord(a, b) ==
  \E w \in {SplitOnSpace(ShorterOf(a, b))[i] : i \in 1..Len(SplitOnSpace(ShorterOf(a, b)))} :
    Len(w) > 4 /\ Includes(LongerOf(a, b), w)

\* duplicates as C23 states them
StatedDuplicate(a, b) ==
  \/ a = b
  \/ (Len(a) >= 20 \/ Len(b) >= 20) /\ (Includes(a, b) \/ Includes(b, a))
  \/ SharesLongWord(a, b)

\* duplicates, with both strings at least 20 long for containment and shared words
LongDuplicate(a, b) ==
  \/ a = b
  \/ /\ Len(a) >= 20 /\ Len(b) >= 20
     /\ (Includes(a, b) \/ Includes(b, a) \/ SharesLongWord(a, b))

ResolvedPage(s) ==
  /\ s.state = "fulfilled" /\ ~s.isNull /\ s.hasData /\ s.hasPagination
  /\ Len(s.data) > 0
  /\ \A i \in 1..Len(s.data) : s.data[i].hasContent

\* C24: the race is won by what settles first. After the query resolved first with a
\* non-empty page the call has returned the deduplicated page; after the timer fired
\* first it has returned the synthetic sample; and once the call has returned, the
\* later firing of the timer or the later resolution or rejection of the query
\* changes neither the winner nor the value returned, and raises no error.
C24_FirstSettledWins ==
  [][/\ (qpc = "done" =>
           qpc' = "done" /\ winner' = winner /\ qReturn' = qReturn /\ qThrew' = qThrew)
     /\ (qpc' = "done" /\ winner' = "query" /\ ResolvedPage(qOutcome') =>
           ~qThrew' /\ qReturn' = deduplicateScreenData(qOutcome'.data))
     /\ (qpc' = "done" /\ winner' = "timer" =>
           ~qThrew' /\ qReturn' = MOCK_SCREEN_DATA)
    ]_vars

\* the timer won, and the query rejected afterwards
C24_Witness ==
  /\ qpc = "done" /\ winner = "timer"
  /\ timerFired /\ querySettled
  /\ qOutcome.state = "rejected"
  /\ qReturn = MOCK_SCREEN_DATA /\ ~qThrew

(***************************************************************************)
(* Claims about the request budget of sendToNebiusAI.                      *)
(***************************************************************************)
\* the call of sendToNebiusAI is in progress, and it has resolved
Sending == gpc \in {"attempt", "backoff"}

Resolved == gpc \in {"respond", "done"}

\* C26: whatever the completion endpoint answers, a sendToNebiusAI call makes at
\* most 4 requests (a request follows only a network failure, and only while fewer
\* than 3 retries were made), resolves with a response and never throws; when a
\* request succeeds, after network failures or not, the response is the endpoint's,
\* not the canned one; and a call in progress always comes to resolve.
C26_BoundedRequestsAlwaysResolves ==
  /\ [](/\ requests <= 4 /\ retryCount <= 3 /\ Len(delays) = retryCount
        /\ (Sending /\ apiConfigured => requests = retryCount)
        /\ (Sending => \A i \in 1..Len(attempts) : attempts[i] = "network")
        /\ (Resolved =>
              /\ aiResponse # NoResponse
              /\ aiResponse.source \in {"api", "mock"}
              /\ (apiConfigured => requests = retryCount + 1)
              /\ (requests > 0 /\ attempts[Len(attempts)] = "ok" <=>
                    aiResponse.source = "api")))
  /\ (Sending ~> Resolved)

\* the fourth request of a call succeeded after three network failures
C26_Witness ==
  /\ Resolved
  /\ attempts = <<"network", "network", "network", "ok">>
  /\ requests = 4
  /\ aiResponse.source = "api"

(***************************************************************************)
(* Claims about the source field of the /activity responses.               *)
(***************************************************************************)
\* C29: in a GET or POST /activity response that has a source field, the source
\* is "mock" exactly when the activity data of the run is the synthetic sample, and
\* "live" exactly when it is what the capture service returned.
C29_SourceTellsSynthetic ==
  run.handler \in ActivityHandlers /\ run.answer.source # "none" =>
    /\ run.answer.source = "mock" <=> run.activityData = MOCK_SCREEN_DATA
    /\ run.answer.source = "live" <=>
          ~run.captureDown /\ run.activityData # MOCK_SCREEN_DATA

(***************************************************************************)
(* Claims about the frame of checkRateLimit.                               *)
(***************************************************************************)
\* C30: a checkRateLimit call changes the entry of the calling address only; a
\* call inside an unexpired window, accepted or rejected, adds one to the window's
\* count and leaves its reset time alone; the reset time of an address moves only
\* at a call made after it has passed, and that call is accepted, so rejected
\* requests never prolong the block.
C30_WindowNeverMovedByRequests ==
  [][\A ip \in Ips :
       ipRequests'[ip] # ipRequests[ip] =>
         /\ run'.ip = ip
         /\ \A other \in Ips \ {ip} : ipRequests'[other] = ipRequests[other]
         /\ (ipRequests[ip].present /\ nowMs <= ipRequests[ip].resetTime =>
               /\ ipRequests'[ip].count = ipRequests[ip].count + 1
               /\ ipRequests'[ip].resetTime = ipRequests[ip].resetTime)
         /\ (ipRequests[ip].present
               /\ ipRequests'[ip].resetTime # ipRequests[ip].resetTime =>
               /\ nowMs > ipRequests[ip].resetTime
               /\ run'.answer.status # 429)]_vars

\* a request is rejected 40 s into a window opened at time 0, the window still ends
\* at 60 s, and another address has a window of its own with requests to spare
C30_Witness ==
  /\ run.handler \in ActivityHandlers
  /\ run.answer.status = 429
  /\ nowMs = TickMs
  /\ run.prior.present /\ run.prior.resetTime = RATE_LIMIT.windowMs
  /\ ipRequests[run.ip] = Entry(run.prior.count + 1, RATE_LIMIT.windowMs)
  /\ \E other \in Ips \ {run.ip} :
       /\ ipRequests[other].present
       /\ ipRequests[other].count < RATE_LIMIT.maxRequests
       /\ ipRequests[other].resetTime = TickMs + RATE_LIMIT.windowMs

====
